---------------------------- MODULE Spec2Model ----------------------------
(***************************************************************************)
(* JanDrishti backend: the chat cache and rate limiter (chat_cache.py) on  *)
(* a key-value store with expiry, and the AQI collector's daily aggregate  *)
(* (aqi_collector.py).                                                     *)
(*                                                                         *)
(* The store is modelled by what the code uses of it: string keys with a   *)
(* value and a remaining time-to-live, sorted sets ordered by score, and   *)
(* the commands GET, SETEX, INCR, ZADD, ZREMRANGEBYRANK, ZREVRANGE, EXPIRE *)
(* and DEL.  Time passes in Tick steps that age every key.                 *)
(***************************************************************************)
EXTENDS Integers, Sequences, FiniteSets, TLC

\* ------------------------------------------------------------------ bounds
\* Request-handling threads that may call check_rate_limit concurrently.
NumCallers == 2
\* Calls counted inside one rate-limit window before the model stops calling.
MaxCalls == 12
\* Seconds that pass in one Tick of the rate limiter's clock.
RateStep == 20

\* Messages already in the user's index when the message specifications
\* start: the state after that many cache_message calls.
Prefilled == 48
\* Further messages that may be cached.
NewMsgs == 4
\* Consecutive invalidations of the followed user before another operation.
MaxInvRuns == 2
\* Seconds that pass in one Tick of the message cache's clock.
DayStep == 86400

\* Hourly readings in one call of calculate_daily_average.
MaxReadings == 4

\* The monitored wards are 1..NumWards, in the order of selected_wards.
NumWards == 2
\* Seconds by which the collector's clock advances in one step, and the
\* last instant followed.
ClockStep == 43200
MaxClock == 172800
\* Calls of store_hourly_data_in_redis and of
\* store_daily_average_in_supabase followed in one behaviour.
MaxStores == 2
MaxPersists == 3
\* Calls of start() and invocations of each job followed in one behaviour.
MaxStarts == 2
MaxJobRuns == 3
\* Threads that call get_collector, get_chat_cache or build a collector,
\* calls each makes of either getter, and calls of reset_collector.
NumThreads == 2
MaxGets == 2
MaxResets == 1
\* Constructions of AQICollector each thread makes, and calls of
\* clear_wards_cache.
MaxBuilds == 2
MaxClears == 1
\* Seconds by which the response cache ages in one step.
RespStep == 60
\* Requests the middleware limiter handles in one behaviour, and seconds by
\* which its keys age in one step.
MaxMwReqs == 5
MwStep == 60
\* Rows of chat_messages the user comes to have, and the largest limit and
\* offset get_chat_messages is called with.
MaxRows == 3
MaxLimit == 2
MaxOffset == 1

\* ------------------------------------------------- configuration constants
CACHE_TTL == 86400
RECENT_MESSAGES_COUNT == 50
SESSION_TTL == 7200
RATE_LIMIT_WINDOW == 60
RATE_LIMIT_MAX == 10

\* A key that does not exist: GET returns None, its time-to-live is -2.
None == -1
KeyMissing == -2
\* A key without expiry (created by INCR): its time-to-live is -1.
NoExpiry == -1

Users == {"u1", "u2"}
\* The user whose requests the rate-limiter specifications follow.
RlUser == "u1"
Callers == 1..NumCallers

\* A message is a row of the durable store: its id and its created_at, here
\* the epoch second the ISO text denotes, or BadStamp for a text that
\* datetime.fromisoformat rejects.
BadStamp == -1
PrefilledMsg(i) == [id |-> i, created_at |-> 10 * i]
NewStamp(k) ==
    IF k % 2 = 1 THEN 10 * Prefilled + 10 * k
    ELSE IF k % 4 = 2 THEN 10 * (k \div 2) - 5
    ELSE 10 * (k \div 4)
NewMsg(k) == [id |-> Prefilled + k, created_at |-> NewStamp(k)]
BadMsg == [id |-> 0, created_at |-> BadStamp]
PrefilledSet == {PrefilledMsg(i) : i \in 1..Prefilled}
\* The messages cache_message is called with: new rows, a row cached
\* before, and a row whose created_at does not parse.
MsgPool == {NewMsg(k) : k \in 1..NewMsgs} \cup {PrefilledMsg(1), BadMsg}
MsgIds == 0..(Prefilled + NewMsgs)
\* The user whose messages the message specifications follow.
CmUser == "u1"
\* The limits get_cached_messages is called with.
Limits == {0, 1, 10, RECENT_MESSAGES_COUNT, RECENT_MESSAGES_COUNT + 10}

VARIABLES
    rlVal,      \* [Users -> Int]: chat:ratelimit:{user}, None when absent
    rlTtl,      \* [Users -> Int]: its remaining seconds, KeyMissing, NoExpiry
    rlPc,       \* [Callers -> {"idle", "got"}]: position in check_rate_limit
    rlCur,      \* [Callers -> Int]: current_count as read by GET
    rlRet,      \* [Callers -> record]: what the last call returned
    rlErr,      \* [Callers -> BOOLEAN]: a store operation of the last call raised
    winLeft,    \* seconds left of the observed window (0: none running)
    winCalls,   \* calls completed inside the observed window
    winClean,   \* every call of the observed window ran wholly inside it, without store error
    winSeen,    \* an observed window has already elapsed
    rlIn,       \* [Callers -> BOOLEAN]: the call started inside the observed window
    rlFresh,    \* [Callers -> BOOLEAN]: the call started with no counter key
    grants,     \* calls answered allowed=true since time last advanced
    hist,       \* [Users -> Seq(message)]: chat:history:{user}, ascending by (score, member)
    histTtl,    \* [Users -> Int]: its remaining seconds
    msgTtl,     \* [MsgIds -> Int]: remaining seconds of chat:message:{id}
    sessTtl,    \* [Users -> Int]: remaining seconds of chat:session:{user}
    sumTtl,     \* [Users -> Int]: remaining seconds of chat:summary:{user}
    cmPc,       \* position in cache_message: "idle", "stored", "added", "trimmed"
    cmMsg,      \* the message of the call in progress (or of the last call)
    cmRet,      \* what the last cache_message returned: "none", "True", "False"
    cmOps,      \* store commands of the call that returned without raising
    written,    \* [Users -> set of messages]: members added to the index since it was created
    gcLimit,    \* limit of the last get_cached_messages call
    gcRet,      \* what it returned
    gcOk,       \* whether its ZREVRANGE returned without raising
    gcSeen,     \* the index as it stood when the call read it
    invRet,     \* what the last invalidate_user_cache returned
    invRuns,    \* consecutive invalidate_user_cache calls of CmUser that returned True
    aggIn,      \* hourly_readings handed to calculate_daily_average
    aggOut,     \* what it returned
    aggPc,      \* "ready" before the call, "done" after it
    clock,      \* datetime.utcnow(), in epoch seconds
    hourKeys,   \* the keys aqi:hourly:{ward}:{date}:{hour}: records ward, date, hour, val, ttl
    dayIdx,     \* [Wards \X Dates -> Seq(entry)]: aqi:hourly:{ward}:{date}, ascending
    dayTtl,     \* [Wards \X Dates -> Int]: its remaining seconds
    daily,      \* the rows of the table ward_aqi_daily
    stores,     \* store_hourly_data_in_redis calls made
    stLast,     \* the last store_hourly_data_in_redis call and how it ended
    ghLast,     \* the last get_hourly_data_from_redis call and what it returned
    fetchLast,  \* the last fetch_aqi_for_ward call and how it ended
    hrLast,     \* how the last fetch_and_store_hourly_data ended, wards it reached
    persists,   \* store_daily_average_in_supabase calls made
    lastCall,   \* [Wards \X Dates -> row]: the row of the most recent call for the key
    lastDone,   \* [Wards \X Dates -> record]: the row of the most recent call the table applied, whether it replaced another
    dPc,        \* calculate_and_store_daily_averages: 0 idle, else the ward being processed
    dDate,      \* its target_date
    dSeen,      \* [Wards -> outcome] of the run in progress (or of the last run)
    dBucket,    \* [Wards -> readings] the run read for each ward
    dEnd,       \* how the last run ended: "none", "running", "returned", "raised"
    isRunning,  \* AQIScheduler.is_running
    schedState, \* BackgroundScheduler.running: "stopped", "running"
    hasCollector, \* AQIScheduler.collector is set
    jobs,       \* ids of the jobs get_jobs() lists, in the order they were added
    starts,     \* calls of start() made
    startLast,  \* how the last start() ended
    hourlyCalls,\* invocations of collector.fetch_and_store_hourly_data
    dailyCalls, \* invocations of collector.calculate_and_store_daily_averages
    jobLast,    \* the last job invocation: which wrapper, from where, whether the routine raised, whether the wrapper did
    lastRaised, \* [job -> BOOLEAN]: the last invocation of the job's routine raised
    lifePc,     \* the statement a start() or shutdown() in progress has reached: "idle", "added", "invoked", "dailyAdded", "shutWait"
    inFlight,   \* jobs a cron firing has submitted and the executor is still running
    startCalls, \* hourly invocations made by the start() in progress (or by the last one)
    shutLast,   \* how the last shutdown() ended: "none", "stopped", "nothing", "raised"
    colInst,    \* _collector_instance: 0 for None, else the number of the AQICollector built
    colLock,    \* the thread holding _collector_lock, 0 when free
    colPc,      \* [Threads -> position in get_collector]: "idle", "wait", "locked", "building", "return"
    colGot,     \* [Threads -> record]: what the thread's last get_collector ended with
    colSaw,     \* [Threads -> BOOLEAN]: the first test of the thread's last call found no instance
    colBuilt,   \* AQICollector instances built by get_collector
    colCalls,   \* [Threads -> Nat]: get_collector calls begun
    colResets,  \* reset_collector calls made
    ccInst,     \* _chat_cache_instance: 0 for None, else the number of the ChatCache built
    ccPc,       \* [Threads -> position in get_chat_cache]: "idle", "building", "return"
    ccGot,      \* [Threads -> record]: what the thread's last get_chat_cache ended with
    ccSaw,      \* [Threads -> BOOLEAN]: the test of the thread's last call found no instance
    ccBuilt,    \* ChatCache instances built by get_chat_cache
    ccCalls,    \* [Threads -> Nat]: get_chat_cache calls begun
    wcHas,      \* hasattr(AQICollector, '_cached_wards')
    wcVal,      \* AQICollector._cached_wards: "None", or the list loaded, "db" or "file"
    wcLockObj,  \* AQICollector._cache_lock: 0 while the attribute is missing, else the number of the Lock object
    wcLocks,    \* Lock objects created
    wcHeld,     \* the Lock objects that are held
    wcPc,       \* [Threads -> position in _load_selected_wards]
    wcMyLock,   \* [Threads -> the Lock object the thread's with statement took from the class]
    wcGot,      \* [Threads -> what the thread's last construction ended with]
    wcLoads,    \* times the load (lines 139-154) was begun since the last clear_wards_cache
    wcBuilds,   \* [Threads -> Nat]: constructions begun
    wcClears,   \* clear_wards_cache calls made
    dVia,       \* what began the last daily run with the default target: "none", "manual", "cron"
    dRetry,     \* that run targets the date of the run before it, which had failed
    respCache,  \* [RespKeys -> entry]: the keys cache:api:{hash}, NoEntry when absent
    rqLast,     \* the last request CacheMiddleware.dispatch handled and what became of it
    mwCnt,      \* [MwKeys -> counter]: the keys ratelimit:{path}:{client_id}, value and remaining seconds
    mwPc,       \* position in RateLimitMiddleware.dispatch: "idle", "got"
    mwReq,      \* the request in progress
    mwCur,      \* current_count as read by GET
    mwWin,      \* [Hosts \X PrefixNames -> window]: the observed windows
    mwLast,     \* the last request the limiter finished and what became of it
    mwReqs,     \* requests the limiter has begun
    chatDb,     \* the rows of the table chat_messages of CmUser, ascending by created_at
    apiLast     \* the last call of a chat endpoint and what it answered

rateVars == <<rlVal, rlTtl, rlPc, rlCur, rlRet, rlErr, winLeft, winCalls, winClean,
              winSeen, rlIn, rlFresh, grants>>

chatVars == <<hist, histTtl, msgTtl, sessTtl, sumTtl, cmPc, cmMsg, cmRet, cmOps,
              written, gcLimit, gcRet, gcOk, gcSeen, invRet, invRuns>>

aggVars == <<aggIn, aggOut, aggPc>>

collVars == <<clock, hourKeys, dayIdx, dayTtl, daily, stores, stLast, ghLast,
              fetchLast, hrLast, persists, lastCall, lastDone, dPc, dDate, dSeen,
              dBucket, dEnd>>

schedVars == <<isRunning, schedState, hasCollector, jobs, starts, startLast, hourlyCalls,
               dailyCalls, jobLast, lastRaised>>

lifeVars == <<lifePc, inFlight, startCalls, shutLast>>

singVars == <<colInst, colLock, colPc, colGot, colSaw, colBuilt, colCalls, colResets,
              ccInst, ccPc, ccGot, ccSaw, ccBuilt, ccCalls>>

wardVars == <<wcHas, wcVal, wcLockObj, wcLocks, wcHeld, wcPc, wcMyLock, wcGot, wcLoads,
              wcBuilds, wcClears>>

runVars == <<dVia, dRetry>>

respVars == <<respCache, rqLast>>

mwVars == <<mwCnt, mwPc, mwReq, mwCur, mwWin, mwLast, mwReqs>>

apiVars == <<chatDb, apiLast>>

moreVars == <<mwVars, apiVars>>

extVars == <<lifeVars, singVars, wardVars, runVars, respVars, moreVars>>

vars == <<rateVars, chatVars, aggVars, collVars, schedVars, extVars>>

\* ------------------------------------------------------------- the store
\* Remaining time-to-live of a key after d seconds.
Age(ttl, d) ==
    IF ttl < 0 THEN ttl
    ELSE IF ttl - d <= 0 THEN KeyMissing
    ELSE ttl - d

\* What a call returns: (is_allowed, remaining_requests).
Ret(allowed, remaining) ==
    [status |-> "returned", allowed |-> allowed, remaining |-> remaining]

NoRet == [status |-> "none", allowed |-> FALSE, remaining |-> 0]

\* ------------------------------------------------------ check_rate_limit
\* if count >= self.RATE_LIMIT_MAX
OverLimit(count) == count >= RATE_LIMIT_MAX

\* Variant: the request being answered is not counted.
RemainingOffByOne(count) == RATE_LIMIT_MAX - count

\* return True, self.RATE_LIMIT_MAX - count - 1
Remaining(count) == RATE_LIMIT_MAX - count - 1

\* return True, self.RATE_LIMIT_MAX - 1
FirstRemaining == RATE_LIMIT_MAX - 1

\* Variant: a store error rejects the request.
FailClosed == Ret(FALSE, 0)

\* except Exception: return True, self.RATE_LIMIT_MAX
FailOpen == Ret(TRUE, RATE_LIMIT_MAX)

\* The observed window, kept beside the store to state the claims: it opens
\* when a call that found no counter key completes, and lasts
\* RATE_LIMIT_WINDOW seconds.
Observe(c, clean) ==
    /\ grants' = IF rlRet'[c].allowed THEN grants + 1 ELSE grants
    /\ IF rlFresh[c] /\ clean
       THEN /\ winLeft' = RATE_LIMIT_WINDOW
            /\ winCalls' = 1
            /\ winClean' = TRUE
       ELSE /\ winLeft' = winLeft
            /\ winCalls' = IF winCalls < MaxCalls THEN winCalls + 1 ELSE winCalls
            /\ winClean' = (winClean /\ clean /\ rlIn[c] /\ winLeft > 0)
    /\ UNCHANGED winSeen

Finish(c, ret, raised) ==
    /\ rlPc' = [rlPc EXCEPT ![c] = "idle"]
    /\ rlRet' = [rlRet EXCEPT ![c] = ret]
    /\ rlErr' = [rlErr EXCEPT ![c] = raised]
    /\ UNCHANGED <<rlCur, rlIn, rlFresh>>

\* current_count = self.redis_client.get(rate_limit_key)
RlGet(c) ==
    /\ rlPc[c] = "idle"
    /\ winCalls < MaxCalls
    /\ rlPc' = [rlPc EXCEPT ![c] = "got"]
    /\ rlCur' = [rlCur EXCEPT ![c] = rlVal[RlUser]]
    /\ rlIn' = [rlIn EXCEPT ![c] = winLeft > 0]
    /\ rlFresh' = [rlFresh EXCEPT ![c] = rlVal[RlUser] = None]
    /\ UNCHANGED <<rlVal, rlTtl, rlRet, rlErr, winLeft, winCalls, winClean, winSeen, grants>>
    /\ UNCHANGED <<chatVars, aggVars, collVars, schedVars, extVars>>

\* The GET raises: the handler returns its fail-open answer.
RlGetFails(c) ==
    /\ rlPc[c] = "idle"
    /\ winCalls < MaxCalls
    /\ rlPc' = [rlPc EXCEPT ![c] = "idle"]
    /\ rlRet' = [rlRet EXCEPT ![c] = FailOpen]
    /\ rlErr' = [rlErr EXCEPT ![c] = TRUE]
    /\ grants' = IF rlRet'[c].allowed THEN grants + 1 ELSE grants
    /\ winCalls' = winCalls + 1
    /\ winClean' = FALSE
    /\ UNCHANGED <<rlVal, rlTtl, rlCur, rlIn, rlFresh, winLeft, winSeen>>
    /\ UNCHANGED <<chatVars, aggVars, collVars, schedVars, extVars>>

\* if current_count is None: setex(key, RATE_LIMIT_WINDOW, "1")
RlSetex(c) ==
    /\ rlPc[c] = "got"
    /\ rlCur[c] = None
    /\ rlVal' = [rlVal EXCEPT ![RlUser] = 1]
    /\ rlTtl' = [rlTtl EXCEPT ![RlUser] = RATE_LIMIT_WINDOW]
    /\ Finish(c, Ret(TRUE, FirstRemaining), FALSE)
    /\ Observe(c, TRUE)
    /\ UNCHANGED <<chatVars, aggVars, collVars, schedVars, extVars>>

\* Variant: the counter is incremented before it is compared.
RlRejectIncrements(c) ==
    /\ rlPc[c] = "got"
    /\ rlCur[c] # None
    /\ OverLimit(rlCur[c])
    /\ rlVal' = [rlVal EXCEPT ![RlUser] = IF @ = None THEN 1 ELSE @ + 1]
    /\ rlTtl' = [rlTtl EXCEPT ![RlUser] = IF @ = KeyMissing THEN NoExpiry ELSE @]
    /\ Finish(c, Ret(FALSE, 0), FALSE)
    /\ Observe(c, TRUE)
    /\ UNCHANGED <<chatVars, aggVars, collVars, schedVars, extVars>>

\* if count >= self.RATE_LIMIT_MAX: return False, 0
RlReject(c) ==
    /\ rlPc[c] = "got"
    /\ rlCur[c] # None
    /\ OverLimit(rlCur[c])
    /\ Finish(c, Ret(FALSE, 0), FALSE)
    /\ Observe(c, TRUE)
    /\ UNCHANGED <<rlVal, rlTtl>>
    /\ UNCHANGED <<chatVars, aggVars, collVars, schedVars, extVars>>

\* else: incr(key); INCR of a key that has expired meanwhile creates it
\* with value 1 and no expiry.
RlIncr(c) ==
    /\ rlPc[c] = "got"
    /\ rlCur[c] # None
    /\ ~OverLimit(rlCur[c])
    /\ rlVal' = [rlVal EXCEPT ![RlUser] = IF @ = None THEN 1 ELSE @ + 1]
    /\ rlTtl' = [rlTtl EXCEPT ![RlUser] = IF @ = KeyMissing THEN NoExpiry ELSE @]
    /\ Finish(c, Ret(TRUE, Remaining(rlCur[c])), FALSE)
    /\ Observe(c, TRUE)
    /\ UNCHANGED <<chatVars, aggVars, collVars, schedVars, extVars>>

\* The SETEX or the INCR raises; the store may or may not have applied it
\* (a timeout after the command was sent).
RlWriteFails(c) ==
    /\ rlPc[c] = "got"
    /\ rlCur[c] = None \/ ~OverLimit(rlCur[c])
    /\ \E applied \in BOOLEAN :
         IF ~applied THEN UNCHANGED <<rlVal, rlTtl>>
         ELSE IF rlCur[c] = None
         THEN /\ rlVal' = [rlVal EXCEPT ![RlUser] = 1]
              /\ rlTtl' = [rlTtl EXCEPT ![RlUser] = RATE_LIMIT_WINDOW]
         ELSE /\ rlVal' = [rlVal EXCEPT ![RlUser] = IF @ = None THEN 1 ELSE @ + 1]
              /\ rlTtl' = [rlTtl EXCEPT ![RlUser] = IF @ = KeyMissing THEN NoExpiry ELSE @]
    /\ Finish(c, FailOpen, TRUE)
    /\ Observe(c, FALSE)
    /\ UNCHANGED <<chatVars, aggVars, collVars, schedVars, extVars>>

\* d seconds pass for the rate-limit keys and the observed window.
RateAge(d) ==
    /\ rlTtl' = [u \in Users |-> Age(rlTtl[u], d)]
    /\ rlVal' = [u \in Users |-> IF rlTtl'[u] = KeyMissing THEN None ELSE rlVal[u]]
    /\ winLeft' = IF winLeft - d <= 0 THEN 0 ELSE winLeft - d
    /\ winSeen' = (winSeen \/ (winLeft > 0 /\ winLeft' = 0))
    /\ winCalls' = IF winLeft' = 0 THEN 0 ELSE winCalls
    /\ grants' = 0
    /\ UNCHANGED <<rlPc, rlCur, rlRet, rlErr, rlIn, rlFresh, winClean>>

\* ------------------------------------------------------- sorted sets
\* timestamp = datetime.fromisoformat(message["created_at"]).timestamp()
Score(m) == m.created_at

\* The order of a sorted set: by score, members of equal score by member.
Less(a, b) ==
    \/ Score(a) < Score(b)
    \/ Score(a) = Score(b) /\ a.id < b.id

Reverse(z) == [i \in 1..Len(z) |-> z[Len(z) + 1 - i]]

\* ZADD key {member: score}: the member is placed by its score; a member
\* already present is moved, not duplicated.
ZAdd(z, m) ==
    LET others == SelectSeq(z, LAMBDA x : x # m)
        lower == SelectSeq(others, LAMBDA x : Less(x, m))
        upper == SelectSeq(others, LAMBDA x : ~Less(x, m))
    IN  lower \o <<m>> \o upper

\* A rank argument of the store: negative ranks count from the end.
Rank(z, r) == IF r < 0 THEN Len(z) + r ELSE r

\* ZREMRANGEBYRANK key start stop: removes the members of rank start..stop.
ZRemRangeByRank(z, start, stop) ==
    LET lo == IF Rank(z, start) < 0 THEN 0 ELSE Rank(z, start)
        hi == IF Rank(z, stop) >= Len(z) THEN Len(z) - 1 ELSE Rank(z, stop)
    IN  IF lo > hi THEN z
        ELSE SubSeq(z, 1, lo) \o SubSeq(z, hi + 2, Len(z))

\* ZREVRANGE key start stop: the members of rank start..stop of the set
\* read from the highest score down.
ZRevRange(z, start, stop) ==
    LET lo == IF Rank(z, start) < 0 THEN 0 ELSE Rank(z, start)
        hi == IF Rank(z, stop) >= Len(z) THEN Len(z) - 1 ELSE Rank(z, stop)
    IN  IF lo > hi THEN <<>>
        ELSE SubSeq(Reverse(z), lo + 1, hi + 1)

\* --------------------------------------------------------- cache_message
\* Variant: the stop rank without the + 1.
TrimStopKeepsOneLess == -RECENT_MESSAGES_COUNT

\* zremrangebyrank(user_chat_key, 0, -(self.RECENT_MESSAGES_COUNT + 1))
TrimStop == -(RECENT_MESSAGES_COUNT + 1)

\* The index after the trim.
Trimmed(z) == ZRemRangeByRank(z, 0, TrimStop)

\* A sorted set without members does not exist as a key.
SetTtl(z, ttl) == IF Len(z) = 0 THEN KeyMissing ELSE ttl

CmReturn(ret) ==
    /\ cmPc' = "idle"
    /\ cmRet' = ret

CmFrame == UNCHANGED <<rateVars, aggVars, collVars, schedVars, extVars, sessTtl, sumTtl, gcLimit, gcRet, gcOk, gcSeen, invRet>>

\* setex(message_key, CACHE_TTL, json.dumps(message))
CmSetex(m) ==
    /\ cmPc = "idle"
    /\ msgTtl' = [msgTtl EXCEPT ![m.id] = CACHE_TTL]
    /\ cmPc' = "stored"
    /\ cmMsg' = m
    /\ cmRet' = "none"
    /\ cmOps' = {"setex"}
    /\ invRuns' = 0
    /\ UNCHANGED <<hist, histTtl, written>>
    /\ CmFrame

\* The SETEX raises; the store may or may not have applied it.
CmSetexFails(m) ==
    /\ cmPc = "idle"
    /\ \E applied \in BOOLEAN :
         msgTtl' = IF applied THEN [msgTtl EXCEPT ![m.id] = CACHE_TTL] ELSE msgTtl
    /\ cmMsg' = m
    /\ cmOps' = {}
    /\ invRuns' = 0
    /\ CmReturn("False")
    /\ UNCHANGED <<hist, histTtl, written>>
    /\ CmFrame

\* datetime.fromisoformat raises on a created_at it cannot parse: the
\* message key is written, the index is not.
CmParseFails ==
    /\ cmPc = "stored"
    /\ Score(cmMsg) = BadStamp
    /\ CmReturn("False")
    /\ UNCHANGED <<hist, histTtl, msgTtl, cmMsg, cmOps, written>>
    /\ invRuns' = 0
    /\ CmFrame

\* The index of CmUser with member m added.
Added(m) == [hist EXCEPT ![CmUser] = ZAdd(@, m)]

\* zadd(user_chat_key, {json.dumps(message): timestamp}); a key created by
\* ZADD has no expiry.
CmZadd ==
    /\ cmPc = "stored"
    /\ Score(cmMsg) # BadStamp
    /\ hist' = Added(cmMsg)
    /\ histTtl' = [histTtl EXCEPT ![CmUser] = IF @ = KeyMissing THEN NoExpiry ELSE @]
    /\ written' = [written EXCEPT ![CmUser] = @ \cup {cmMsg}]
    /\ cmPc' = "added"
    /\ cmOps' = cmOps \cup {"zadd"}
    /\ UNCHANGED <<msgTtl, cmMsg, cmRet>>
    /\ invRuns' = 0
    /\ CmFrame

\* The ZADD raises; the store may or may not have applied it.
CmZaddFails ==
    /\ cmPc = "stored"
    /\ Score(cmMsg) # BadStamp
    /\ \E applied \in BOOLEAN :
         IF applied
         THEN /\ hist' = Added(cmMsg)
              /\ histTtl' = [histTtl EXCEPT ![CmUser] = IF @ = KeyMissing THEN NoExpiry ELSE @]
              /\ written' = [written EXCEPT ![CmUser] = @ \cup {cmMsg}]
         ELSE UNCHANGED <<hist, histTtl, written>>
    /\ CmReturn("False")
    /\ UNCHANGED <<msgTtl, cmMsg, cmOps>>
    /\ invRuns' = 0
    /\ CmFrame

\* zremrangebyrank(user_chat_key, 0, -(RECENT_MESSAGES_COUNT + 1))
CmTrim ==
    /\ cmPc = "added"
    /\ hist' = [hist EXCEPT ![CmUser] = Trimmed(@)]
    /\ histTtl' = [histTtl EXCEPT ![CmUser] = SetTtl(hist'[CmUser], @)]
    /\ cmPc' = "trimmed"
    /\ cmOps' = cmOps \cup {"trim"}
    /\ UNCHANGED <<msgTtl, cmMsg, cmRet, written>>
    /\ invRuns' = 0
    /\ CmFrame

\* The ZREMRANGEBYRANK raises; the store may or may not have applied it.
CmTrimFails ==
    /\ cmPc = "added"
    /\ \E applied \in BOOLEAN :
         IF applied
         THEN /\ hist' = [hist EXCEPT ![CmUser] = Trimmed(@)]
              /\ histTtl' = [histTtl EXCEPT ![CmUser] = SetTtl(hist'[CmUser], @)]
         ELSE UNCHANGED <<hist, histTtl>>
    /\ CmReturn("False")
    /\ UNCHANGED <<msgTtl, cmMsg, cmOps, written>>
    /\ invRuns' = 0
    /\ CmFrame

\* expire(user_chat_key, CACHE_TTL), then return True; EXPIRE of a key that
\* does not exist changes nothing and does not raise.
CmExpire ==
    /\ cmPc = "trimmed"
    /\ histTtl' = [histTtl EXCEPT ![CmUser] = IF @ = KeyMissing THEN @ ELSE CACHE_TTL]
    /\ cmOps' = cmOps \cup {"expire"}
    /\ CmReturn("True")
    /\ UNCHANGED <<hist, msgTtl, cmMsg, written>>
    /\ invRuns' = 0
    /\ CmFrame

\* Variant: the EXPIRE outside the try block's reach, its failure ignored.
CmExpireFailsReturnsTrue ==
    /\ cmPc = "trimmed"
    /\ \E applied \in BOOLEAN :
         histTtl' = IF applied
                    THEN [histTtl EXCEPT ![CmUser] = IF @ = KeyMissing THEN @ ELSE CACHE_TTL]
                    ELSE histTtl
    /\ CmReturn("True")
    /\ UNCHANGED <<hist, msgTtl, cmMsg, cmOps, written>>
    /\ invRuns' = 0
    /\ CmFrame

\* The EXPIRE raises; the store may or may not have applied it.
CmExpireFails ==
    /\ cmPc = "trimmed"
    /\ \E applied \in BOOLEAN :
         histTtl' = IF applied
                    THEN [histTtl EXCEPT ![CmUser] = IF @ = KeyMissing THEN @ ELSE CACHE_TTL]
                    ELSE histTtl
    /\ CmReturn("False")
    /\ UNCHANGED <<hist, msgTtl, cmMsg, cmOps, written>>
    /\ invRuns' = 0
    /\ CmFrame

\* --------------------------------------------------- get_cached_messages
\* json.loads(msg_json) succeeds: the member is the JSON text of a message.
Decodes(e) == DOMAIN e = {"id", "created_at"}

\* zrevrange(user_chat_key, 0, limit - 1), then each member decoded,
\* those that fail to decode skipped.
CachedMessages(u, limit) ==
    SelectSeq(ZRevRange(hist[u], 0, limit - 1), Decodes)

GetCached(limit) ==
    /\ gcLimit' = limit
    /\ gcRet' = CachedMessages(CmUser, limit)
    /\ gcOk' = TRUE
    /\ gcSeen' = hist[CmUser]
    /\ UNCHANGED <<rateVars, aggVars, collVars, schedVars, extVars, hist, histTtl, msgTtl, sessTtl, sumTtl, cmPc, cmMsg,
                   cmRet, cmOps, written, invRet, invRuns>>

\* The ZREVRANGE raises: return [].
GetCachedFails(limit) ==
    /\ gcLimit' = limit
    /\ gcRet' = <<>>
    /\ gcOk' = FALSE
    /\ gcSeen' = hist[CmUser]
    /\ UNCHANGED <<rateVars, aggVars, collVars, schedVars, extVars, hist, histTtl, msgTtl, sessTtl, sumTtl, cmPc, cmMsg,
                   cmRet, cmOps, written, invRet, invRuns>>

\* ------------------------------------- sessions, summaries, invalidation
KeyFrame == UNCHANGED <<rateVars, aggVars, collVars, schedVars, extVars, msgTtl, cmPc, cmMsg, cmRet, cmOps, gcLimit, gcRet,
                        gcOk, gcSeen, invRet>>

\* update_session: setex(session_key, SESSION_TTL, json.dumps(session_data))
UpdateSession(u) ==
    /\ sessTtl' = [sessTtl EXCEPT ![u] = SESSION_TTL]
    /\ invRuns' = 0
    /\ UNCHANGED <<hist, histTtl, written, sumTtl>>
    /\ KeyFrame

\* cache_conversation_summary: setex(summary_key, CACHE_TTL, json.dumps(summary_data))
CacheSummary(u) ==
    /\ sumTtl' = [sumTtl EXCEPT ![u] = CACHE_TTL]
    /\ invRuns' = 0
    /\ UNCHANGED <<hist, histTtl, written, sessTtl>>
    /\ KeyFrame

\* The store after the first k of the deletes of invalidate_user_cache(u):
\* chat:history:{u}, chat:session:{u}, chat:summary:{u}, in this order.
DeletesFirst(u, k) ==
    /\ hist' = IF k >= 1 THEN [hist EXCEPT ![u] = <<>>] ELSE hist
    /\ histTtl' = IF k >= 1 THEN [histTtl EXCEPT ![u] = KeyMissing] ELSE histTtl
    /\ written' = IF k >= 1 THEN [written EXCEPT ![u] = {}] ELSE written
    /\ sessTtl' = IF k >= 2 THEN [sessTtl EXCEPT ![u] = KeyMissing] ELSE sessTtl
    /\ sumTtl' = IF k >= 3 THEN [sumTtl EXCEPT ![u] = KeyMissing] ELSE sumTtl

\* Variant: the summary key left out of keys_to_delete.
InvalidateSkipsSummary(u) ==
    /\ DeletesFirst(u, 2)
    /\ invRet' = "True"
    /\ u = CmUser => invRuns < MaxInvRuns
    /\ invRuns' = IF u = CmUser THEN invRuns + 1 ELSE 0
    /\ UNCHANGED <<rateVars, aggVars, collVars, schedVars, extVars, msgTtl, cmPc, cmMsg, cmRet, cmOps, gcLimit, gcRet,
                   gcOk, gcSeen>>

\* Variant: the rate-limit key of the user is among the keys deleted.
InvalidateWithRateLimit(u) ==
    /\ DeletesFirst(u, 3)
    /\ invRet' = "True"
    /\ u = CmUser => invRuns < MaxInvRuns
    /\ invRuns' = IF u = CmUser THEN invRuns + 1 ELSE 0
    /\ rlVal' = [rlVal EXCEPT ![u] = None]
    /\ rlTtl' = [rlTtl EXCEPT ![u] = KeyMissing]
    /\ UNCHANGED <<rlPc, rlCur, rlRet, rlErr, winLeft, winCalls, winClean, winSeen, rlIn,
                   rlFresh, grants>>
    /\ UNCHANGED <<aggVars, collVars, schedVars, extVars, msgTtl, cmPc, cmMsg, cmRet, cmOps, gcLimit, gcRet,
                   gcOk, gcSeen>>

\* invalidate_user_cache(u): the three deletes, then return True.
Invalidate(u) ==
    /\ DeletesFirst(u, 3)
    /\ invRet' = "True"
    /\ u = CmUser => invRuns < MaxInvRuns
    /\ invRuns' = IF u = CmUser THEN invRuns + 1 ELSE 0
    /\ UNCHANGED <<rateVars, aggVars, collVars, schedVars, extVars, msgTtl, cmPc, cmMsg, cmRet, cmOps, gcLimit, gcRet,
                   gcOk, gcSeen>>

\* One of the deletes raises after k of them were applied: return False.
InvalidateFails(u) ==
    /\ \E k \in 0..3 : DeletesFirst(u, k)
    /\ invRet' = "False"
    /\ invRuns' = 0
    /\ UNCHANGED <<rateVars, aggVars, collVars, schedVars, extVars, msgTtl, cmPc, cmMsg, cmRet, cmOps, gcLimit, gcRet,
                   gcOk, gcSeen>>

\* d seconds pass for the chat keys.
ChatAge(d) ==
    /\ histTtl' = [u \in Users |-> Age(histTtl[u], d)]
    /\ hist' = [u \in Users |-> IF histTtl'[u] = KeyMissing THEN <<>> ELSE hist[u]]
    /\ written' = [u \in Users |-> IF histTtl'[u] = KeyMissing THEN {} ELSE written[u]]
    /\ msgTtl' = [i \in MsgIds |-> Age(msgTtl[i], d)]
    /\ sessTtl' = [u \in Users |-> Age(sessTtl[u], d)]
    /\ sumTtl' = [u \in Users |-> Age(sumTtl[u], d)]
    /\ invRuns' = 0
    /\ UNCHANGED <<cmPc, cmMsg, cmRet, cmOps, gcLimit, gcRet, gcOk, gcSeen, invRet>>

\* d seconds pass: every key ages, expired keys disappear.
Tick(d) == RateAge(d) /\ ChatAge(d) /\ UNCHANGED <<aggVars, collVars, schedVars, extVars>>

\* ----------------------------------------------- calculate_daily_average
\* A field of a reading that is None, or absent.
Null == -1

\* An hourly reading as get_hourly_data_from_redis decodes it.
Reading(aqi, pm25, pm10, no2, o3) ==
    [aqi |-> aqi, pm25 |-> pm25, pm10 |-> pm10, no2 |-> no2, o3 |-> o3]

\* The readings calculate_daily_average is called with.
ReadingPool ==
    { Reading(150, 80, Null, Null, Null),
      Reading(Null, 60, 40, Null, Null),
      Reading(0, Null, Null, Null, Null),
      Reading(50, 20, 30, 10, 5),
      Reading(Null, Null, Null, Null, Null) }

ReadingLists == UNION {[1..n -> ReadingPool] : n \in 0..MaxReadings}

RECURSIVE SeqSum(_)
SeqSum(z) == IF Len(z) = 0 THEN 0 ELSE z[1] + SeqSum(Tail(z))

RECURSIVE SeqMin(_)
SeqMin(z) ==
    IF Len(z) = 1 THEN z[1]
    ELSE IF z[1] <= SeqMin(Tail(z)) THEN z[1] ELSE SeqMin(Tail(z))

RECURSIVE SeqMax(_)
SeqMax(z) ==
    IF Len(z) = 1 THEN z[1]
    ELSE IF z[1] >= SeqMax(Tail(z)) THEN z[1] ELSE SeqMax(Tail(z))

\* [r[f] for r in hourly_readings if r.get(f) is not None]
RECURSIVE Values(_, _)
Values(rs, f) ==
    IF Len(rs) = 0 THEN <<>>
    ELSE IF rs[1][f] # Null THEN <<rs[1][f]>> \o Values(Tail(rs), f)
    ELSE Values(Tail(rs), f)

\* Variant: the filter written as a truth test, which drops an AQI of 0.
AqiValuesTruthy(rs) == SelectSeq(Values(rs, "aqi"), LAMBDA v : v # 0)

\* aqi_values = [r["aqi"] for r in hourly_readings if r.get("aqi") is not None]
AqiValues(rs) == Values(rs, "aqi")

\* sum(values) / len(values): the quotient, kept as numerator and denominator.
Mean(values) == [num |-> SeqSum(values), den |-> Len(values)]

\* A mean that is None.
NullMean == [num |-> Null, den |-> 0]

\* Variant: a pollutant no reading carries averaged as zero.
MeanOrZero(values) == IF Len(values) = 0 THEN [num |-> 0, den |-> 1] ELSE Mean(values)

\* sum(values) / len(values) if values else None
MeanOrNone(values) == IF Len(values) = 0 THEN NullMean ELSE Mean(values)

\* Variant: the sum divided by len(hourly_readings).
AvgAqiOverAllReadings(rs) == [num |-> SeqSum(AqiValues(rs)), den |-> Len(rs)]

\* "avg_aqi": sum(aqi_values) / len(aqi_values)
AvgAqi(rs) == Mean(AqiValues(rs))

NoneResult == [kind |-> "None"]

CalculateDailyAverage(rs) ==
    IF Len(rs) = 0 THEN NoneResult
    ELSE IF Len(AqiValues(rs)) = 0 THEN NoneResult
    ELSE [kind |-> "dict",
          avg_aqi |-> AvgAqi(rs),
          min_aqi |-> SeqMin(AqiValues(rs)),
          max_aqi |-> SeqMax(AqiValues(rs)),
          avg_pm25 |-> MeanOrNone(Values(rs, "pm25")),
          avg_pm10 |-> MeanOrNone(Values(rs, "pm10")),
          avg_no2 |-> MeanOrNone(Values(rs, "no2")),
          avg_o3 |-> MeanOrNone(Values(rs, "o3")),
          hourly_readings_count |-> Len(rs)]

\* daily_avg = self.calculate_daily_average(hourly_readings)
Aggregate ==
    /\ aggPc = "ready"
    /\ aggOut' = CalculateDailyAverage(aggIn)
    /\ aggPc' = "done"
    /\ UNCHANGED <<rateVars, chatVars, aggIn, collVars, schedVars, extVars>>

\* ------------------------------------------------------ the AQI collector
\* The module never binds the name logger (it imports no logging module
\* and assigns no such global): a statement that uses it raises NameError.
LoggerBound == FALSE

\* How a statement logger.info(...) / warning(...) / error(...) ends.
LogEnds == IF LoggerBound THEN "returned" ELSE "NameError"

\* 86400 * 2: the expiry of the hourly key and of the per-day index.
HOURLY_TTL == 172800

Wards == 1..NumWards

\* now.strftime("%Y-%m-%d") and now.hour of an instant in epoch seconds.
DateOf(t) == t \div 86400
HourOf(t) == (t % 86400) \div 3600
Dates == 0..DateOf(MaxClock)
DayKeys == Wards \X Dates

\* The dict fetch_aqi_for_ward builds: the payload and fetched_at.
Fetched(p, t) ==
    [aqi |-> p.aqi, pm25 |-> p.pm25, pm10 |-> p.pm10, no2 |-> p.no2, o3 |-> p.o3,
     fetched_at |-> t]

\* The payloads of the dicts store_hourly_data_in_redis is called with.
Payloads ==
    { Reading(150, 80, Null, Null, Null),
      Reading(Null, 60, 40, Null, Null) }

\* aqi_data of a call: None, or a dict fetched now.
StoreInputs == {NoneResult} \cup {Fetched(p, clock) : p \in Payloads}

\* The ward whose bucket the cache specification follows.
StWard == 1

\* json.dumps(aqi_data) and json.loads(reading_json): the text of a dict,
\* and the dict a text written by json.dumps denotes.
Dumps(r) == [json |-> r]
Loads(m) == m.json

\* The order of two JSON texts: by the text of "aqi" (150.0 before 50.0
\* before null, character by character), then by the later fields; texts
\* of one payload differ first in "fetched_at".
AqiTextRank(a) == IF a = Null THEN 3 ELSE IF a = 150 THEN 1 ELSE 2
TextLess(m, n) ==
    \/ AqiTextRank(m.json.aqi) < AqiTextRank(n.json.aqi)
    \/ m.json.aqi = n.json.aqi /\ m.json.fetched_at < n.json.fetched_at

\* ZADD key {member: score} on a set of entries (member, score): ordered by
\* score, then by member; a member already present is moved.
ZAddScored(z, member, score) ==
    LET e == [member |-> member, score |-> score]
        before(x) == \/ x.score < score
                     \/ x.score = score /\ TextLess(x.member, member)
        others == SelectSeq(z, LAMBDA x : x.member # member)
    IN  SelectSeq(others, before) \o <<e>> \o SelectSeq(others, LAMBDA x : ~before(x))

\* SETEX key ttl value on the hourly keys.
SetexHour(keys, w, t, val) ==
    {k \in keys : ~(k.ward = w /\ k.date = DateOf(t) /\ k.hour = HourOf(t))}
        \cup {[ward |-> w, date |-> DateOf(t), hour |-> HourOf(t), val |-> val,
                ttl |-> HOURLY_TTL]}

\* How a call ended.
Call(w, r, status) == [ward |-> w, reading |-> r, date |-> DateOf(clock), status |-> status]
NoCall == [ward |-> 0, reading |-> NoneResult, date |-> 0, status |-> "none"]

CollFrame == UNCHANGED <<rateVars, chatVars, aggVars, schedVars, extVars>>

\* store_hourly_data_in_redis(ward, aqi_data), the three commands accepted:
\* nothing for a falsy aqi_data; else SETEX of the hourly key, ZADD to the
\* per-day index, EXPIRE of the index, and the closing logger.info.
StoreHourlyDataInRedis(w, r) ==
    /\ stores < MaxStores
    /\ stores' = stores + 1
    /\ IF r = NoneResult
       THEN /\ stLast' = Call(w, r, "returned")
            /\ UNCHANGED <<hourKeys, dayIdx, dayTtl>>
       ELSE /\ hourKeys' = SetexHour(hourKeys, w, clock, Dumps(r))
            /\ dayIdx' = [dayIdx EXCEPT ![<<w, DateOf(clock)>>] = ZAddScored(@, Dumps(r), clock)]
            /\ dayTtl' = [dayTtl EXCEPT ![<<w, DateOf(clock)>>] = HOURLY_TTL]
            /\ stLast' = Call(w, r, LogEnds)
    /\ UNCHANGED <<clock, daily, ghLast, fetchLast, hrLast, persists, lastCall, lastDone,
                   dPc, dDate, dSeen, dBucket, dEnd>>
    /\ CollFrame

\* The same call when the cache raises at its n-th command (1 SETEX,
\* 2 ZADD, 3 EXPIRE), which the cache may or may not have applied: nothing
\* in the method catches it.
StoreHourlyFails(w, r, n) ==
    /\ stores < MaxStores
    /\ r # NoneResult
    /\ stores' = stores + 1
    /\ \E applied \in BOOLEAN :
        LET d == DateOf(clock)
            setex == n > 1 \/ applied
            zadd == n > 2 \/ (n = 2 /\ applied)
            expire == n = 3 /\ applied
        IN  /\ hourKeys' = IF setex THEN SetexHour(hourKeys, w, clock, Dumps(r)) ELSE hourKeys
            /\ dayIdx' = IF zadd
                         THEN [dayIdx EXCEPT ![<<w, d>>] = ZAddScored(@, Dumps(r), clock)]
                         ELSE dayIdx
            /\ dayTtl' = IF expire THEN [dayTtl EXCEPT ![<<w, d>>] = HOURLY_TTL]
                         ELSE IF zadd /\ dayTtl[<<w, d>>] = KeyMissing
                         THEN [dayTtl EXCEPT ![<<w, d>>] = NoExpiry]
                         ELSE dayTtl
    /\ stLast' = Call(w, r, "RedisError")
    /\ UNCHANGED <<clock, daily, ghLast, fetchLast, hrLast, persists, lastCall, lastDone,
                   dPc, dDate, dSeen, dBucket, dEnd>>
    /\ CollFrame

\* zrange(day_key, 0, -1), each member decoded by json.loads. Every member
\* of the index was written by json.dumps, so none is skipped.
Decoded(z) == [i \in 1..Len(z) |-> Loads(z[i].member)]
GetHourlyDataFromRedis(w, d) == Decoded(dayIdx[<<w, d>>])

NoRead == [ward |-> 0, date |-> 0, status |-> "none", ret |-> <<>>]

\* A call of get_hourly_data_from_redis(ward_no, target_date).
GetHourly(w, d) ==
    /\ ghLast' = [ward |-> w, date |-> d, status |-> "returned",
                  ret |-> GetHourlyDataFromRedis(w, d)]
    /\ UNCHANGED <<clock, hourKeys, dayIdx, dayTtl, daily, stores, stLast, fetchLast, hrLast,
                   persists, lastCall, lastDone, dPc, dDate, dSeen, dBucket, dEnd>>
    /\ CollFrame

\* The same call when ZRANGE raises: nothing in the method catches it.
GetHourlyFails(w, d) ==
    /\ ghLast' = [ward |-> w, date |-> d, status |-> "RedisError", ret |-> <<>>]
    /\ UNCHANGED <<clock, hourKeys, dayIdx, dayTtl, daily, stores, stLast, fetchLast, hrLast,
                   persists, lastCall, lastDone, dPc, dDate, dSeen, dBucket, dEnd>>
    /\ CollFrame

\* d seconds pass for the collector's keys: each ages, expired keys
\* disappear.
CollTick(d) ==
    /\ clock + d <= MaxClock
    /\ clock' = clock + d
    /\ hourKeys' = {[k EXCEPT !.ttl = Age(k.ttl, d)] : k \in {x \in hourKeys : Age(x.ttl, d) # KeyMissing}}
    /\ dayTtl' = [k \in DayKeys |-> Age(dayTtl[k], d)]
    /\ dayIdx' = [k \in DayKeys |-> IF Age(dayTtl[k], d) = KeyMissing THEN <<>> ELSE dayIdx[k]]
    /\ UNCHANGED <<daily, stores, stLast, ghLast, fetchLast, hrLast, persists, lastCall,
                   lastDone, dPc, dDate, dSeen, dBucket, dEnd>>
    /\ CollFrame


\* ------------------------------------------------------ fetch_aqi_for_ward
\* What the provider does with a request: its answer, or no answer.
\* aqi is data.aqi and sub is data.iaqi.aqi.v; Dash is the text "-", which
\* float() rejects. The module cannot be imported without WAQI_TOKEN (its
\* line 22 uses logger), so every call finds the token set.
Dash == -2
Answer(status, aqi, sub, p) == [kind |-> "answer", status |-> status, aqi |-> aqi, sub |-> sub, iaqi |-> p]
Responses ==
    { Answer("ok", 150, Null, Reading(Null, 80, Null, Null, Null)),
      Answer("ok", Null, 50, Reading(Null, 20, 30, 10, 5)),
      Answer("ok", Null, Null, Reading(Null, 60, 40, Null, Null)),
      Answer("ok", Dash, Null, Reading(Null, Null, Null, Null, Null)),
      Answer("error", Null, Null, Reading(Null, Null, Null, Null, Null)),
      [kind |-> "httpError"],
      [kind |-> "timeout"] }

Coords == {"inRange", "outOfRange"}

\* How a call ends: what it returns, or the exception it raises, and
\* whether requests.get was called.
Outcome(ret, status, called) == [ret |-> ret, status |-> status, called |-> called]

\* logger.error(...) or logger.warning(...) followed by return None, inside
\* the try or inside one of its handlers: a NameError raised in the try is
\* caught by "except Exception", whose own logger.error raises it again.
LoggedNone(called) == Outcome(NoneResult, LogEnds, called)

\* aqi = station_full.get("aqi"), else station_full["iaqi"]["aqi"]["v"]
AqiOf(resp) == IF resp.aqi # Null THEN resp.aqi ELSE resp.sub

\* Variant: no test of aqi before the dict is built.
DiscardsNoAqi(aqi) == FALSE

\* if aqi is None: return None
Discards(aqi) == aqi = Null

FetchAqiForWard(coords, resp, t) ==
    IF coords = "outOfRange" THEN LoggedNone(FALSE)
    ELSE IF resp.kind \in {"httpError", "timeout"} THEN LoggedNone(TRUE)
    ELSE IF resp.status # "ok" THEN LoggedNone(TRUE)
    ELSE IF Discards(AqiOf(resp)) THEN Outcome(NoneResult, "returned", TRUE)
    ELSE IF AqiOf(resp) = Dash THEN LoggedNone(TRUE)
    ELSE Outcome(Fetched([resp.iaqi EXCEPT !.aqi = AqiOf(resp)], t), "returned", TRUE)

NoFetch == [coords |-> "none", resp |-> [kind |-> "none"], out |-> Outcome(NoneResult, "none", FALSE)]

\* A call of fetch_aqi_for_ward from outside the hourly run.
FetchAqi(coords, resp) ==
    /\ fetchLast' = [coords |-> coords, resp |-> resp, out |-> FetchAqiForWard(coords, resp, clock)]
    /\ UNCHANGED <<clock, hourKeys, dayIdx, dayTtl, daily, stores, stLast, ghLast, hrLast,
                   persists, lastCall, lastDone, dPc, dDate, dSeen, dBucket, dEnd>>
    /\ CollFrame

\* ---------------------------------------------- fetch_and_store_hourly_data
\* The cache as the loop over the wards leaves it from ward w on, every
\* command accepted: a ward whose fetch returns a dict is stored.
RECURSIVE HourlyLoop(_, _, _)
HourlyLoop(w, cache, resp) ==
    IF w > NumWards THEN cache
    ELSE LET out == FetchAqiForWard("inRange", resp[w], clock)
             d == DateOf(clock)
             stored == [hour |-> SetexHour(cache.hour, w, clock, Dumps(out.ret)),
                        idx |-> [cache.idx EXCEPT ![<<w, d>>] = ZAddScored(@, Dumps(out.ret), clock)],
                        ttl |-> [cache.ttl EXCEPT ![<<w, d>>] = HOURLY_TTL]]
         IN  IF out.ret # NoneResult THEN HourlyLoop(w + 1, stored, resp)
             ELSE HourlyLoop(w + 1, cache, resp)

\* fetch_and_store_hourly_data(): its first statement is logger.info, so
\* the call raises before it reaches the first ward.
HourlyRoutine ==
    /\ IF LoggerBound
       THEN \E resp \in [Wards -> Responses] :
              LET cache == HourlyLoop(1, [hour |-> hourKeys, idx |-> dayIdx, ttl |-> dayTtl], resp)
              IN  /\ hourKeys' = cache.hour
                  /\ dayIdx' = cache.idx
                  /\ dayTtl' = cache.ttl
                  /\ hrLast' = [status |-> "returned", reached |-> Wards]
       ELSE /\ hrLast' = [status |-> "NameError", reached |-> {}]
            /\ UNCHANGED <<hourKeys, dayIdx, dayTtl>>
    /\ UNCHANGED <<clock, daily, stores, stLast, ghLast, fetchLast, persists, lastCall,
                   lastDone, dPc, dDate, dSeen, dBucket, dEnd>>

\* A call of fetch_and_store_hourly_data from outside the scheduler.
FetchAndStoreHourlyData == HourlyRoutine /\ CollFrame

\* ------------------------------------------ store_daily_average_in_supabase
\* The row the method builds: the ward, the date, the aggregate's values
\* and updated_at.
Row(w, d, agg) == [ward_no |-> w, date |-> d, agg |-> agg, updated_at |-> clock]

SameKey(x, row) == x.ward_no = row.ward_no /\ x.date = row.date

\* Variant: a plain insert, which ignores the conflict.
Insert(rows, row) == rows \cup {row}

\* upsert(data, on_conflict="ward_no,date"): the row replaces the row of
\* its (ward_no, date), if there is one.
Upsert(rows, row) == {x \in rows : ~SameKey(x, row)} \cup {row}

\* The aggregates the method is called with from outside the daily run.
AggPool ==
    { CalculateDailyAverage(<<Reading(150, 80, Null, Null, Null)>>),
      CalculateDailyAverage(<<Reading(50, 20, 30, 10, 5), Reading(0, Null, Null, Null, Null)>>) }

\* The effect of one call on the table and on the record of calls; the
\* table raising (applied or not) is caught and the method returns None.
Persisted(w, d, agg, raises, applied) ==
    /\ daily' = IF applied THEN Upsert(daily, Row(w, d, agg)) ELSE daily
    /\ lastCall' = [lastCall EXCEPT ![<<w, d>>] = Row(w, d, agg)]
    /\ lastDone' = IF applied
                   THEN [lastDone EXCEPT ![<<w, d>>] =
                            [row |-> Row(w, d, agg),
                             replaced |-> \E x \in daily : SameKey(x, Row(w, d, agg)) /\ x # Row(w, d, agg)]]
                   ELSE lastDone

\* A call of store_daily_average_in_supabase(ward, target_date, daily_avg).
StoreDailyAverage(w, d, agg) ==
    /\ persists < MaxPersists
    /\ persists' = persists + 1
    /\ Persisted(w, d, agg, FALSE, TRUE)
    /\ UNCHANGED <<clock, hourKeys, dayIdx, dayTtl, stores, stLast, ghLast, fetchLast, hrLast,
                   dPc, dDate, dSeen, dBucket, dEnd>>
    /\ CollFrame

\* The same call when the upsert raises.
StoreDailyAverageFails(w, d, agg) ==
    /\ persists < MaxPersists
    /\ persists' = persists + 1
    /\ \E applied \in BOOLEAN : Persisted(w, d, agg, TRUE, applied)
    /\ UNCHANGED <<clock, hourKeys, dayIdx, dayTtl, stores, stLast, ghLast, fetchLast, hrLast,
                   dPc, dDate, dSeen, dBucket, dEnd>>
    /\ CollFrame

\* ------------------------------------ calculate_and_store_daily_averages
DailyFrame ==
    /\ UNCHANGED <<clock, hourKeys, dayIdx, dayTtl, stores, stLast, ghLast, fetchLast, hrLast,
                   persists>>
    /\ CollFrame

\* The call begins: target_date is given, or yesterday.
DailyBegin(d) ==
    /\ dPc = 0
    /\ dPc' = 1
    /\ dDate' = d
    /\ dSeen' = [w \in Wards |-> "pending"]
    /\ dBucket' = [w \in Wards |-> <<>>]
    /\ dEnd' = "running"
    /\ UNCHANGED <<daily, lastCall, lastDone>>

DailyStart(d) == DailyBegin(d) /\ DailyFrame

\* date.today(), the server's zone taken as UTC.
Today == DateOf(clock)

\* Variant: the run of the current date.
TargetToday == Today

\* target_date = date.today() - timedelta(days=1)
TargetDate == Today - 1

\* The last run did not complete for its date: it raised, or an upsert of
\* it failed.
LastRunFailed ==
    \/ dEnd = "raised"
    \/ dEnd = "returned" /\ \E w \in Wards : dSeen[w] = "upsertFailed"

\* _calculate_daily_averages(): the wrapper calls the collector's routine
\* without a date, so the run begins with the default target.
DailyDefault(via) ==
    /\ TargetDate \in Dates
    /\ DailyBegin(TargetDate)
    /\ dVia' = via
    /\ dRetry' = (LastRunFailed /\ TargetDate = dDate)
    /\ UNCHANGED <<clock, hourKeys, dayIdx, dayTtl, stores, stLast, ghLast, fetchLast, hrLast,
                   persists>>
    /\ UNCHANGED <<rateVars, chatVars, aggVars, schedVars, lifeVars, singVars, wardVars,
                   respVars, moreVars>>

\* trigger_daily_calculation(), at any time.
TriggerDailyRun == DailyDefault("manual")

\* The daily job's cron firing, at a day boundary.
FireDailyRun == clock % 86400 = 0 /\ DailyDefault("cron")

\* The loop moves to the next ward, or the call returns.
DailyAdvance(outcome, readings) ==
    /\ dSeen' = [dSeen EXCEPT ![dPc] = outcome]
    /\ dBucket' = [dBucket EXCEPT ![dPc] = readings]
    /\ dPc' = IF dPc = NumWards THEN 0 ELSE dPc + 1
    /\ dEnd' = IF dPc = NumWards THEN "returned" ELSE "running"
    /\ UNCHANGED dDate

\* if not hourly_readings: continue ... if daily_avg: store
ShouldStore(readings, avg) == Len(readings) > 0 /\ avg # NoneResult

\* One pass of the loop body for the ward dPc, the bucket read and the
\* upsert, if any, accepted.
DailyWard ==
    /\ dPc \in Wards
    /\ LET readings == GetHourlyDataFromRedis(dPc, dDate)
           avg == CalculateDailyAverage(readings)
       IN  IF ShouldStore(readings, avg)
           THEN /\ Persisted(dPc, dDate, avg, FALSE, TRUE)
                /\ DailyAdvance("upserted", readings)
           ELSE /\ UNCHANGED <<daily, lastCall, lastDone>>
                /\ DailyAdvance(IF Len(readings) = 0 THEN "skipped" ELSE "nothingToStore", readings)
    /\ DailyFrame

\* The pass when the upsert raises: store_daily_average_in_supabase
\* catches it and the loop goes on.
DailyWardUpsertFails ==
    /\ dPc \in Wards
    /\ LET readings == GetHourlyDataFromRedis(dPc, dDate)
           avg == CalculateDailyAverage(readings)
       IN  /\ ShouldStore(readings, avg)
           /\ \E applied \in BOOLEAN : Persisted(dPc, dDate, avg, TRUE, applied)
           /\ DailyAdvance("upsertFailed", readings)
    /\ DailyFrame

\* The pass when ZRANGE raises: neither get_hourly_data_from_redis nor the
\* loop catches it, and the call ends there.
DailyWardReadFails ==
    /\ dPc \in Wards
    /\ dSeen' = [dSeen EXCEPT ![dPc] = "readFailed"]
    /\ dPc' = 0
    /\ dEnd' = "raised"
    /\ UNCHANGED <<daily, lastCall, lastDone, dDate, dBucket>>
    /\ DailyFrame

\* ---------------------------------------------------------- AQIScheduler
HourlyJob == "fetch_hourly_aqi"
DailyJob == "calculate_daily_averages"
JobIds == {HourlyJob, DailyJob}

NoJob == [job |-> "none", via |-> "none", raised |-> FALSE, propagated |-> FALSE,
          afterRaise |-> FALSE, during |-> "idle"]

SchedFrame == UNCHANGED <<rateVars, chatVars, aggVars, extVars>>

\* add_job(..., id=id, replace_existing=True): a job of that id is
\* replaced, not added a second time.
AddJob(js, id) == IF \E i \in 1..Len(js) : js[i] = id THEN js ELSE Append(js, id)

\* Variant: the wrapper without its except clause.
PropagatesUncaught(raised) == raised

\* except Exception as e: logger.error(...): whether the wrapper raises
\* when the collector's routine did. This module binds logger (line 13).
Propagates(raised) == FALSE

\* The record of one invocation of a wrapper.
Invoked(job, via, raised) ==
    /\ jobLast' = [job |-> job, via |-> via, raised |-> raised,
                   propagated |-> Propagates(raised), afterRaise |-> lastRaised[job],
                   during |-> lifePc]
    /\ lastRaised' = [lastRaised EXCEPT ![job] = raised]

\* _fetch_hourly_data(): the collector's hourly routine inside try/except.
FetchHourlyData(via) ==
    /\ hourlyCalls < MaxJobRuns
    /\ hourlyCalls' = hourlyCalls + 1
    /\ HourlyRoutine
    /\ Invoked(HourlyJob, via, hrLast'.status # "returned")
    /\ UNCHANGED dailyCalls

\* _calculate_daily_averages(): the collector's daily routine inside
\* try/except; the routine returns, or raises on a cache error.
CalculateDailyAverages(via) ==
    /\ dailyCalls < MaxJobRuns
    /\ dailyCalls' = dailyCalls + 1
    /\ \E raised \in BOOLEAN : Invoked(DailyJob, via, raised)
    /\ UNCHANGED <<hourlyCalls, collVars>>

\* Variant: start() without the test of is_running.
NeverAlreadyRunning == FALSE

\* if self.is_running
AlreadyRunning == isRunning

\* start(): nothing when already running; else the hourly job is added,
\* the hourly wrapper is called once, the daily job is added and the
\* background scheduler is started, which raises if it runs already. An
\* exception is logged and raised again.
Start ==
    /\ starts < MaxStarts
    /\ starts' = starts + 1
    /\ IF AlreadyRunning
       THEN /\ startLast' = "alreadyRunning"
            /\ UNCHANGED <<isRunning, schedState, hasCollector, jobs, hourlyCalls, dailyCalls,
                           jobLast, lastRaised, collVars>>
       ELSE /\ hasCollector' = TRUE
            /\ FetchHourlyData("start")
            /\ IF jobLast'.propagated
               THEN /\ jobs' = AddJob(jobs, HourlyJob)
                    /\ startLast' = "raised"
                    /\ UNCHANGED <<isRunning, schedState>>
               ELSE /\ jobs' = AddJob(AddJob(jobs, HourlyJob), DailyJob)
                    /\ IF schedState = "running"
                       THEN /\ startLast' = "raised"
                            /\ UNCHANGED <<isRunning, schedState>>
                       ELSE /\ startLast' = "started"
                            /\ schedState' = "running"
                            /\ isRunning' = TRUE
    /\ SchedFrame

\* start() when get_collector() raises: logged and raised again, nothing
\* registered.
StartFails ==
    /\ starts < MaxStarts
    /\ ~isRunning
    /\ ~hasCollector
    /\ starts' = starts + 1
    /\ startLast' = "raised"
    /\ UNCHANGED <<isRunning, schedState, hasCollector, jobs, hourlyCalls, dailyCalls,
                   jobLast, lastRaised, collVars>>
    /\ SchedFrame

\* shutdown() of a running scheduler: the background scheduler stops and
\* lists no job any more.
Shutdown ==
    /\ schedState = "running"
    /\ schedState' = "stopped"
    /\ isRunning' = FALSE
    /\ jobs' = <<>>
    /\ UNCHANGED <<hasCollector, starts, startLast, hourlyCalls, dailyCalls, jobLast,
                   lastRaised, collVars>>
    /\ SchedFrame

JobFrame == UNCHANGED <<isRunning, schedState, jobs, starts, startLast>>

\* The cron trigger of a registered job fires on the running scheduler.
FireHourly ==
    /\ schedState = "running"
    /\ \E i \in 1..Len(jobs) : jobs[i] = HourlyJob
    /\ FetchHourlyData("cron")
    /\ UNCHANGED hasCollector
    /\ JobFrame /\ SchedFrame

FireDaily ==
    /\ schedState = "running"
    /\ \E i \in 1..Len(jobs) : jobs[i] = DailyJob
    /\ CalculateDailyAverages("cron")
    /\ UNCHANGED hasCollector
    /\ JobFrame /\ SchedFrame

\* trigger_hourly_fetch() and trigger_daily_calculation(): the collector
\* is fetched if not yet set, then the wrapper is called.
TriggerHourlyFetch ==
    /\ hasCollector' = TRUE
    /\ FetchHourlyData("manual")
    /\ JobFrame /\ SchedFrame

TriggerDailyCalculation ==
    /\ hasCollector' = TRUE
    /\ CalculateDailyAverages("manual")
    /\ JobFrame /\ SchedFrame

\* ------------------------------- start() and shutdown(), statement by statement
LifeFrame ==
    UNCHANGED <<rateVars, chatVars, aggVars, singVars, wardVars, runVars, respVars,
                moreVars>>

Registered(job) == \E i \in 1..Len(jobs) : jobs[i] = job

\* Variant: shutdown() without the test of scheduler.running.
SchedulerRunningAlways == TRUE

\* if self.scheduler.running
SchedulerRunning == schedState = "running"

\* Variant: a cron trigger that fires as soon as its job is added.
FiresOnceAdded(job) == Registered(job)

\* A job's cron trigger fires only on a started background scheduler: a job
\* added before scheduler.start() is pending until then.
Fires(job) == schedState = "running" /\ Registered(job)

\* start() up to the first add_job: nothing when already running; else the
\* collector is fetched and the hourly job is added.
StartBegin ==
    /\ lifePc = "idle"
    /\ starts < MaxStarts
    /\ starts' = starts + 1
    /\ IF AlreadyRunning
       THEN /\ startLast' = "alreadyRunning"
            /\ UNCHANGED <<hasCollector, jobs, lifePc, startCalls>>
       ELSE /\ startLast' = "inProgress"
            /\ hasCollector' = TRUE
            /\ jobs' = AddJob(jobs, HourlyJob)
            /\ lifePc' = "added"
            /\ startCalls' = 0
    /\ UNCHANGED <<isRunning, schedState, hourlyCalls, dailyCalls, jobLast, lastRaised,
                   collVars, inFlight, shutLast>>
    /\ LifeFrame

\* self._fetch_hourly_data() at line 46: the initial collection, in the
\* thread that called start().
StartInvoke ==
    /\ lifePc = "added"
    /\ FetchHourlyData("start")
    /\ startCalls' = startCalls + 1
    /\ lifePc' = IF jobLast'.propagated THEN "idle" ELSE "invoked"
    /\ startLast' = IF jobLast'.propagated THEN "raised" ELSE startLast
    /\ UNCHANGED <<isRunning, schedState, hasCollector, jobs, starts, inFlight, shutLast>>
    /\ LifeFrame

\* The second add_job, of the daily job.
StartAddDaily ==
    /\ lifePc = "invoked"
    /\ jobs' = AddJob(jobs, DailyJob)
    /\ lifePc' = "dailyAdded"
    /\ UNCHANGED <<isRunning, schedState, hasCollector, starts, startLast, hourlyCalls,
                   dailyCalls, jobLast, lastRaised, collVars, inFlight, startCalls, shutLast>>
    /\ LifeFrame

\* self.scheduler.start() and self.is_running = True.
StartTrigger ==
    /\ lifePc = "dailyAdded"
    /\ lifePc' = "idle"
    /\ IF schedState = "running"
       THEN /\ startLast' = "raised"
            /\ UNCHANGED <<isRunning, schedState>>
       ELSE /\ startLast' = "started"
            /\ schedState' = "running"
            /\ isRunning' = TRUE
    /\ UNCHANGED <<hasCollector, jobs, starts, hourlyCalls, dailyCalls, jobLast, lastRaised,
                   collVars, inFlight, startCalls, shutLast>>
    /\ LifeFrame

\* A cron firing submits the job to the executor; a job still running is
\* not submitted again (max_instances is 1).
CronBegin(job) ==
    /\ Fires(job)
    /\ job \notin inFlight
    /\ (IF job = HourlyJob THEN hourlyCalls ELSE dailyCalls) < MaxJobRuns
    /\ inFlight' = inFlight \cup {job}
    /\ UNCHANGED <<schedVars, collVars, lifePc, startCalls, shutLast>>
    /\ LifeFrame

\* The executor's thread runs the submitted job's wrapper to its end.
CronEnd(job) ==
    /\ job \in inFlight
    /\ inFlight' = inFlight \ {job}
    /\ IF job = HourlyJob THEN FetchHourlyData("cron") ELSE CalculateDailyAverages("cron")
    /\ UNCHANGED <<isRunning, schedState, hasCollector, jobs, starts, startLast, lifePc,
                   startCalls, shutLast>>
    /\ LifeFrame

\* shutdown() up to scheduler.shutdown(): nothing when the background
\* scheduler is not running (scheduler.shutdown() would raise there); else
\* the scheduler is stopped, fires no more and lists no job, and the call
\* waits for the executor.
ShutdownBegin ==
    /\ lifePc = "idle"
    /\ IF SchedulerRunning
       THEN IF schedState = "running"
            THEN /\ schedState' = "stopped"
                 /\ jobs' = <<>>
                 /\ lifePc' = "shutWait"
                 /\ UNCHANGED shutLast
            ELSE /\ shutLast' = "raised"
                 /\ UNCHANGED <<schedState, jobs, lifePc>>
       ELSE /\ shutLast' = "nothing"
            /\ UNCHANGED <<schedState, jobs, lifePc>>
    /\ UNCHANGED <<isRunning, hasCollector, starts, startLast, hourlyCalls, dailyCalls,
                   jobLast, lastRaised, collVars, inFlight, startCalls>>
    /\ LifeFrame

\* scheduler.shutdown() returns once the executor has run the submitted
\* jobs to their end (wait=True); then self.is_running = False.
ShutdownEnd ==
    /\ lifePc = "shutWait"
    /\ inFlight = {}
    /\ lifePc' = "idle"
    /\ isRunning' = FALSE
    /\ shutLast' = "stopped"
    /\ UNCHANGED <<schedState, hasCollector, jobs, starts, startLast, hourlyCalls, dailyCalls,
                   jobLast, lastRaised, collVars, inFlight, startCalls>>
    /\ LifeFrame

\* ----------------------------------------- get_collector, get_chat_cache
Threads == 1..NumThreads

\* What a call of a getter ended with: an instance, or the exception of
\* the constructor.
NoGot == [ret |-> "none", id |-> 0]
Got(id) == [ret |-> "instance", id |-> id]
RaisedGot == [ret |-> "raised", id |-> 0]

SingFrame ==
    UNCHANGED <<rateVars, chatVars, aggVars, collVars, schedVars, lifeVars, wardVars, runVars,
                respVars, moreVars>>
ColFrame == UNCHANGED <<ccInst, ccPc, ccGot, ccSaw, ccBuilt, ccCalls>> /\ SingFrame
CcFrame ==
    /\ UNCHANGED <<colInst, colLock, colPc, colGot, colSaw, colBuilt, colCalls, colResets>>
    /\ SingFrame

\* Variant: no second test once the lock is held.
TakenAsNone == TRUE

\* if _collector_instance is None, inside the lock (line 19)
StillNone == colInst = 0

\* get_collector, line 16: the first test, without the lock.
ColCheck(t) ==
    /\ colPc[t] = "idle"
    /\ colCalls[t] < MaxGets
    /\ colCalls' = [colCalls EXCEPT ![t] = @ + 1]
    /\ colSaw' = [colSaw EXCEPT ![t] = colInst = 0]
    /\ colPc' = [colPc EXCEPT ![t] = IF colInst = 0 THEN "wait" ELSE "return"]
    /\ UNCHANGED <<colInst, colLock, colGot, colBuilt, colResets>>
    /\ ColFrame

\* with _collector_lock: the lock is taken once it is free.
ColAcquire(t) ==
    /\ colPc[t] = "wait"
    /\ colLock = 0
    /\ colLock' = t
    /\ colPc' = [colPc EXCEPT ![t] = "locked"]
    /\ UNCHANGED <<colInst, colGot, colSaw, colBuilt, colCalls, colResets>>
    /\ ColFrame

\* The second test, under the lock: build, or leave the with block.
ColRecheck(t) ==
    /\ colPc[t] = "locked"
    /\ IF StillNone
       THEN /\ colPc' = [colPc EXCEPT ![t] = "building"]
            /\ UNCHANGED colLock
       ELSE /\ colPc' = [colPc EXCEPT ![t] = "return"]
            /\ colLock' = 0
    /\ UNCHANGED <<colInst, colGot, colSaw, colBuilt, colCalls, colResets>>
    /\ ColFrame

\* _collector_instance = AQICollector(): the constructor returns and the
\* global is assigned, or it raises and the with block releases the lock.
ColBuild(t) ==
    /\ colPc[t] = "building"
    /\ colLock' = 0
    /\ \/ /\ colBuilt' = colBuilt + 1
          /\ colInst' = colBuilt + 1
          /\ colPc' = [colPc EXCEPT ![t] = "return"]
          /\ UNCHANGED colGot
       \/ /\ colGot' = [colGot EXCEPT ![t] = RaisedGot]
          /\ colPc' = [colPc EXCEPT ![t] = "idle"]
          /\ UNCHANGED <<colInst, colBuilt>>
    /\ UNCHANGED <<colSaw, colCalls, colResets>>
    /\ ColFrame

\* return _collector_instance
ColReturn(t) ==
    /\ colPc[t] = "return"
    /\ colGot' = [colGot EXCEPT ![t] = Got(colInst)]
    /\ colPc' = [colPc EXCEPT ![t] = "idle"]
    /\ UNCHANGED <<colInst, colLock, colSaw, colBuilt, colCalls, colResets>>
    /\ ColFrame

\* reset_collector(): the global is cleared under the lock.
ResetCollector ==
    /\ colResets < MaxResets
    /\ colLock = 0
    /\ colResets' = colResets + 1
    /\ colInst' = 0
    /\ UNCHANGED <<colLock, colPc, colGot, colSaw, colBuilt, colCalls>>
    /\ ColFrame

\* get_chat_cache, line 315: the only test; there is no lock.
CcCheck(t) ==
    /\ ccPc[t] = "idle"
    /\ ccCalls[t] < MaxGets
    /\ ccCalls' = [ccCalls EXCEPT ![t] = @ + 1]
    /\ ccSaw' = [ccSaw EXCEPT ![t] = ccInst = 0]
    /\ ccPc' = [ccPc EXCEPT ![t] = IF ccInst = 0 THEN "building" ELSE "return"]
    /\ UNCHANGED <<ccInst, ccGot, ccBuilt>>
    /\ CcFrame

\* _chat_cache_instance = ChatCache(): the constructor connects to the
\* cache and returns, and the global is assigned, or it raises.
CcBuild(t) ==
    /\ ccPc[t] = "building"
    /\ \/ /\ ccBuilt' = ccBuilt + 1
          /\ ccInst' = ccBuilt + 1
          /\ ccPc' = [ccPc EXCEPT ![t] = "return"]
          /\ UNCHANGED ccGot
       \/ /\ ccGot' = [ccGot EXCEPT ![t] = RaisedGot]
          /\ ccPc' = [ccPc EXCEPT ![t] = "idle"]
          /\ UNCHANGED <<ccInst, ccBuilt>>
    /\ UNCHANGED <<ccSaw, ccCalls>>
    /\ CcFrame

\* return _chat_cache_instance
CcReturn(t) ==
    /\ ccPc[t] = "return"
    /\ ccGot' = [ccGot EXCEPT ![t] = Got(ccInst)]
    /\ ccPc' = [ccPc EXCEPT ![t] = "idle"]
    /\ UNCHANGED <<ccInst, ccSaw, ccBuilt, ccCalls>>
    /\ CcFrame

\* --------------------------------------------------- _load_selected_wards
WardFrame ==
    UNCHANGED <<rateVars, chatVars, aggVars, collVars, schedVars, lifeVars, singVars, runVars,
                respVars, moreVars>>

\* The construction of thread t moves to pc, or ends with got.
WardGoes(t, pc) == wcPc' = [wcPc EXCEPT ![t] = pc] /\ UNCHANGED wcGot
WardEnds(t, got) == wcPc' = [wcPc EXCEPT ![t] = "idle"] /\ wcGot' = [wcGot EXCEPT ![t] = got]

\* AQICollector() reaches _load_selected_wards and calls _get_cached_wards
\* (line 128): without the attribute it goes on to create it; with it, the
\* cached list is returned if there is one.
WardCheck(t) ==
    /\ wcPc[t] = "idle"
    /\ wcBuilds[t] < MaxBuilds
    /\ wcBuilds' = [wcBuilds EXCEPT ![t] = @ + 1]
    /\ IF ~wcHas THEN WardGoes(t, "setNone")
       ELSE IF wcVal # "None" THEN WardEnds(t, wcVal)
       ELSE WardGoes(t, "with")
    /\ UNCHANGED <<wcHas, wcVal, wcLockObj, wcLocks, wcHeld, wcMyLock, wcLoads, wcClears>>
    /\ WardFrame

\* AQICollector._cached_wards = None (line 113)
WardSetNone(t) ==
    /\ wcPc[t] = "setNone"
    /\ wcHas' = TRUE
    /\ wcVal' = "None"
    /\ WardGoes(t, "newLock")
    /\ UNCHANGED <<wcLockObj, wcLocks, wcHeld, wcMyLock, wcLoads, wcBuilds, wcClears>>
    /\ WardFrame

\* AQICollector._cache_lock = threading.Lock() (line 114)
WardNewLock(t) ==
    /\ wcPc[t] = "newLock"
    /\ wcLocks' = wcLocks + 1
    /\ wcLockObj' = wcLocks + 1
    /\ WardGoes(t, "read")
    /\ UNCHANGED <<wcHas, wcVal, wcHeld, wcMyLock, wcLoads, wcBuilds, wcClears>>
    /\ WardFrame

\* return AQICollector._cached_wards (line 115) and the test of line 129.
WardRead(t) ==
    /\ wcPc[t] = "read"
    /\ IF wcVal # "None" THEN WardEnds(t, wcVal) ELSE WardGoes(t, "with")
    /\ UNCHANGED <<wcHas, wcVal, wcLockObj, wcLocks, wcHeld, wcMyLock, wcLoads, wcBuilds,
                   wcClears>>
    /\ WardFrame

\* with self._cache_lock (line 133): the attribute is looked up, which
\* raises AttributeError while it is missing.
WardWith(t) ==
    /\ wcPc[t] = "with"
    /\ IF wcLockObj = 0
       THEN /\ WardEnds(t, "AttributeError")
            /\ UNCHANGED wcMyLock
       ELSE /\ WardGoes(t, "acquire")
            /\ wcMyLock' = [wcMyLock EXCEPT ![t] = wcLockObj]
    /\ UNCHANGED <<wcHas, wcVal, wcLockObj, wcLocks, wcHeld, wcLoads, wcBuilds, wcClears>>
    /\ WardFrame

\* The Lock object found is acquired once it is free.
WardAcquire(t) ==
    /\ wcPc[t] = "acquire"
    /\ wcMyLock[t] \notin wcHeld
    /\ wcHeld' = wcHeld \cup {wcMyLock[t]}
    /\ WardGoes(t, "recheck")
    /\ UNCHANGED <<wcHas, wcVal, wcLockObj, wcLocks, wcMyLock, wcLoads, wcBuilds, wcClears>>
    /\ WardFrame

\* The second test, under the lock (lines 135-137).
WardRecheck(t) ==
    /\ wcPc[t] = "recheck"
    /\ IF wcVal # "None"
       THEN /\ WardEnds(t, wcVal)
            /\ wcHeld' = wcHeld \ {wcMyLock[t]}
            /\ UNCHANGED wcLoads
       ELSE /\ WardGoes(t, "query")
            /\ wcLoads' = wcLoads + 1
            /\ UNCHANGED wcHeld
    /\ UNCHANGED <<wcHas, wcVal, wcLockObj, wcLocks, wcMyLock, wcBuilds, wcClears>>
    /\ WardFrame

\* The query of selected_wards (lines 139-146): rows come back and are
\* cached and returned, or the query fails or returns nothing.
WardQuery(t) ==
    /\ wcPc[t] = "query"
    /\ \/ /\ wcVal' = "db"
          /\ WardEnds(t, "db")
          /\ wcHeld' = wcHeld \ {wcMyLock[t]}
       \/ /\ WardGoes(t, "file")
          /\ UNCHANGED <<wcVal, wcHeld>>
    /\ UNCHANGED <<wcHas, wcLockObj, wcLocks, wcMyLock, wcLoads, wcBuilds, wcClears>>
    /\ WardFrame

\* The fallback (lines 149-154): selected_wards.json, present beside the
\* module, is loaded, cached and returned.
WardFile(t) ==
    /\ wcPc[t] = "file"
    /\ wcVal' = "file"
    /\ WardEnds(t, "file")
    /\ wcHeld' = wcHeld \ {wcMyLock[t]}
    /\ UNCHANGED <<wcHas, wcLockObj, wcLocks, wcMyLock, wcLoads, wcBuilds, wcClears>>
    /\ WardFrame

\* clear_wards_cache()
ClearWardsCache ==
    /\ wcClears < MaxClears
    /\ wcClears' = wcClears + 1
    /\ wcVal' = "None"
    /\ wcLoads' = 0
    /\ UNCHANGED <<wcHas, wcLockObj, wcLocks, wcHeld, wcPc, wcMyLock, wcGot, wcBuilds>>
    /\ WardFrame

\* ------------------------------------------------ CacheMiddleware.dispatch
\* cache.py imports Request, BaseHTTPMiddleware and Response; the name
\* JSONResponse, used at lines 50 and 85, is bound nowhere in the module.
JsonResponseBound == FALSE

\* CACHE_TTL of cache.py, in the order of the dict.
RESPONSE_CACHE_TTL ==
    << [prefix |-> "/api/aqi/feed/", ttl |-> 300],
       [prefix |-> "/api/aqi/hourly/", ttl |-> 60],
       [prefix |-> "/api/aqi/daily", ttl |-> 3600],
       [prefix |-> "/api/aqi/wards", ttl |-> 3600] >>

\* A path is the text base followed by the text tail; the bases used are
\* such that none is the start of another.
Path(base, tail) == [base |-> base, tail |-> tail]
StartsWith(path, prefix) == path.base = prefix

\* for path, ttl in CACHE_TTL.items(): the ttl of the first prefix the
\* path starts with, 0 standing for None (if not cache_ttl treats both
\* alike).
RECURSIVE FirstTtl(_, _)
FirstTtl(path, i) ==
    IF i > Len(RESPONSE_CACHE_TTL) THEN 0
    ELSE IF StartsWith(path, RESPONSE_CACHE_TTL[i].prefix) THEN RESPONSE_CACHE_TTL[i].ttl
    ELSE FirstTtl(path, i + 1)
CacheTtlFor(path) == FirstTtl(path, 1)

\* sorted(request.url.query.split("&")), for at most two parameters.
ParamRank(q) == IF q = "a=1" THEN 1 ELSE 2
SortedParams(query) ==
    IF Len(query) = 2 /\ ParamRank(query[2]) < ParamRank(query[1])
    THEN <<query[2], query[1]>>
    ELSE query

\* _generate_cache_key: the digest of path and sorted parameters, taken as
\* free of collisions.
GenerateCacheKey(req) == [path |-> req.path, params |-> SortedParams(req.query)]

Request(method, path, query) == [method |-> method, path |-> path, query |-> query]
FeedPath == Path("/api/aqi/feed/", "12")
Requests ==
    { Request("GET", FeedPath, <<>>),
      Request("GET", FeedPath, <<"a=1", "b=2">>),
      Request("GET", FeedPath, <<"b=2", "a=1">>),
      Request("POST", FeedPath, <<>>),
      Request("GET", Path("/api/aqi/hourly/", "12"), <<>>),
      Request("GET", Path("/api/aqi/feed", ""), <<>>),
      Request("GET", Path("/api/chat/messages", ""), <<>>) }
RespKeys == {GenerateCacheKey(r) : r \in {x \in Requests : CacheTtlFor(x.path) > 0}}

\* What call_next does: the handler returns a response, whose body is JSON
\* or not, or raises.
Handled(status, json, content) ==
    [kind |-> "response", status |-> status, json |-> json, content |-> content]
Raises == [kind |-> "raises", status |-> 0, json |-> FALSE, content |-> "none"]
HandlerOutcomes ==
    { Handled(200, TRUE, "v1"), Handled(200, TRUE, "v2"), Handled(200, FALSE, "text"),
      Handled(404, TRUE, "notFound"), Raises }
\* The cache answers every command, fails at GET, fails at SETEX before
\* applying it, or fails at SETEX after applying it.
StoreErrors == {"none", "get", "setex", "setexLate"}

NoEntry == [content |-> "none", status_code |-> 0, ttl |-> 0, ttl0 |-> 0, method |-> "none"]
Entry(req, resp, ttl) ==
    [content |-> resp.content, status_code |-> resp.status, ttl |-> ttl, ttl0 |-> ttl,
     method |-> req.method]

\* What became of a request: whether the cache was read and written,
\* whether an entry was found, how often call_next was invoked, the
\* response returned and its X-Cache header.
Outcome4(req, read, found, wrote, calls, served, status, content, tag) ==
    [req |-> req, read |-> read, found |-> found, wrote |-> wrote, calls |-> calls,
     served |-> served, status |-> status, content |-> content, tag |-> tag]
NoRequest ==
    Outcome4(Request("none", Path("none", ""), <<>>), FALSE, FALSE, FALSE, 0, "none", 0,
             "none", "none")
\* The response of the handler goes out as it is, or its exception does.
FromHandler(req, read, found, wrote, calls, h, tag) ==
    Outcome4(req, read, found, wrote, calls,
             IF h.kind = "raises" THEN "raised" ELSE "handler", h.status, h.content,
             IF h.kind = "raises" THEN "none" ELSE tag)

\* Variant: responses of any status are stored.
CacheableAny(status) == TRUE

\* if response.status_code == 200
Cacheable(status) == status = 200

RespFrame ==
    UNCHANGED <<rateVars, chatVars, aggVars, collVars, schedVars, lifeVars, singVars, wardVars,
                runVars, moreVars>>

\* dispatch(request, call_next), h1 and h2 being what the first and the
\* second call of call_next do and err what the cache does.
\*  - not GET, or no prefix matches: call_next, nothing else.
\*  - GET of the cache raises: the outer handler calls call_next.
\*  - an entry is found: JSONResponse(...) tagged HIT; with the name
\*    unbound the NameError reaches the outer handler, which calls
\*    call_next.
\*  - no entry: call_next; an exception of it reaches the outer handler,
\*    which calls call_next again; a response that is not 200 goes out as it
\*    is; a 200 response is parsed and stored with the prefix's ttl, then
\*    JSONResponse(...) tagged MISS; any exception on that way (body not
\*    JSON, SETEX raising, the unbound name) makes the inner handler return
\*    the original response.
Dispatch(req, h1, h2, err) ==
    LET ttl == CacheTtlFor(req.path)
        key == GenerateCacheKey(req)
        stored == Entry(req, h1, ttl)
    IN  /\ IF req.method # "GET" \/ ttl = 0
           THEN /\ rqLast' = FromHandler(req, FALSE, FALSE, FALSE, 1, h1, "none")
                /\ UNCHANGED respCache
           ELSE IF err = "get"
           THEN /\ rqLast' = FromHandler(req, TRUE, FALSE, FALSE, 1, h1, "none")
                /\ UNCHANGED respCache
           ELSE IF respCache[key] # NoEntry
           THEN /\ rqLast' = IF JsonResponseBound
                             THEN Outcome4(req, TRUE, TRUE, FALSE, 0, "cache",
                                           respCache[key].status_code, respCache[key].content,
                                           "HIT")
                             ELSE FromHandler(req, TRUE, TRUE, FALSE, 1, h1, "none")
                /\ UNCHANGED respCache
           ELSE IF h1.kind = "raises"
           THEN /\ rqLast' = FromHandler(req, TRUE, FALSE, FALSE, 2, h2, "none")
                /\ UNCHANGED respCache
           ELSE IF ~Cacheable(h1.status) \/ ~h1.json \/ err = "setex"
           THEN /\ rqLast' = FromHandler(req, TRUE, FALSE, FALSE, 1, h1, "none")
                /\ UNCHANGED respCache
           ELSE /\ respCache' = [respCache EXCEPT ![key] = stored]
                /\ rqLast' = FromHandler(req, TRUE, FALSE, TRUE, 1, h1,
                                         IF JsonResponseBound /\ err = "none"
                                         THEN "MISS" ELSE "none")
        /\ RespFrame

\* d seconds pass for the response cache: entries age and expire.
RespTick(d) ==
    /\ respCache' = [k \in RespKeys |->
                        IF respCache[k] = NoEntry \/ respCache[k].ttl <= d THEN NoEntry
                        ELSE [respCache[k] EXCEPT !.ttl = @ - d]]
    /\ respCache' # respCache
    /\ UNCHANGED rqLast
    /\ RespFrame

\* ------------------------------------------- RateLimitMiddleware.dispatch
\* RATE_LIMITS of rate_limiter.py, in the order of the dict; every window
\* is 60 seconds.
RATE_LIMITS ==
    << [prefix |-> "/api/auth/login", requests |-> 5, window |-> 60],
       [prefix |-> "/api/auth/signup", requests |-> 3, window |-> 60],
       [prefix |-> "/api/aqi/feed/", requests |-> 30, window |-> 60],
       [prefix |-> "/api/aqi/hourly/", requests |-> 60, window |-> 60],
       [prefix |-> "/api/aqi/daily", requests |-> 30, window |-> 60] >>
DefaultLimit == [prefix |-> "default", requests |-> 100, window |-> 60]

\* if request.url.path in ["/", "/api/health", "/docs", "/redoc", "/openapi.json"]
Exempt(path) ==
    path \in {Path("/", ""), Path("/api/health", ""), Path("/docs", ""), Path("/redoc", ""),
              Path("/openapi.json", "")}

\* for path, config in RATE_LIMITS.items(): the configuration of the first
\* prefix the path starts with, else the default.
RECURSIVE FirstLimit(_, _)
FirstLimit(path, i) ==
    IF i > Len(RATE_LIMITS) THEN DefaultLimit
    ELSE IF StartsWith(path, RATE_LIMITS[i].prefix) THEN RATE_LIMITS[i]
    ELSE FirstLimit(path, i + 1)
RateLimitFor(path) == FirstLimit(path, 1)

\* A request as the limiter sees it: its path, the client address
\* (request.client.host) and whether the Authorization header starts with
\* "Bearer ".
MwRequest(path, host, bearer) == [path |-> path, host |-> host, bearer |-> bearer]
Hosts == {"10.0.0.1", "10.0.0.2"}
SignupPath == Path("/api/auth/signup", "")
MwRequests ==
    { MwRequest(SignupPath, "10.0.0.1", FALSE),
      MwRequest(Path("/api/auth/signup", "/"), "10.0.0.1", FALSE),
      MwRequest(SignupPath, "10.0.0.1", TRUE),
      MwRequest(SignupPath, "10.0.0.2", FALSE),
      MwRequest(Path("/api/auth/login", ""), "10.0.0.1", FALSE),
      MwRequest(Path("/api/chat/messages", ""), "10.0.0.1", FALSE),
      MwRequest(Path("/api/health", ""), "10.0.0.1", FALSE) }

\* client_id = host, or f"{host}:{path}" with a bearer token;
\* rate_limit_key = f"ratelimit:{request.url.path}:{client_id}"
RateLimitKey(req) ==
    [path |-> req.path, host |-> req.host,
     idpath |-> IF req.bearer THEN req.path ELSE Path("none", "")]
MwKeys == {RateLimitKey(r) : r \in MwRequests}

NoCounter == [val |-> None, ttl |-> KeyMissing]
\* INCR of a key: a key that is missing is created with value 1 and no
\* expiry.
Incr(k) == IF k.val = None THEN [val |-> 1, ttl |-> NoExpiry] ELSE [k EXCEPT !.val = @ + 1]

\* What call_next does with the request: the handler returns a response
\* or raises.
CallOutcomes == {"response", "raises"}

\* What became of a request: the response that went out ("handler",
\* "raised" when the handler's exception did, "429"), how often call_next
\* was invoked, whether a store command raised.
MwOutcome(out, calls, storeErr) == [out |-> out, calls |-> calls, storeErr |-> storeErr]
NoMwRequest == MwRequest(Path("none", ""), "none", FALSE)
NoMwOutcome == MwOutcome("none", 0, FALSE)

\* The prefixes a window is observed for, and the observed window of a
\* client address and prefix, kept beside the store to state the claims:
\* it opens when a request is let through while none is open, lasts the
\* prefix's window, and counts the requests let through while it is open;
\* clean records that no store command failed meanwhile.
PrefixNames == {RATE_LIMITS[i].prefix : i \in 1..Len(RATE_LIMITS)} \cup {"default"}
NoWindow == [left |-> 0, through |-> 0, clean |-> TRUE]
LetThrough(req, clean) ==
    LET lim == RateLimitFor(req.path)
        w == mwWin[req.host, lim.prefix]
    IN  mwWin' = [mwWin EXCEPT ![req.host, lim.prefix] =
                     IF w.left = 0
                     THEN [left |-> lim.window, through |-> 1, clean |-> clean]
                     ELSE [w EXCEPT !.through = @ + 1, !.clean = @ /\ clean]]

MwFrame ==
    UNCHANGED <<rateVars, chatVars, aggVars, collVars, schedVars, lifeVars, singVars, wardVars,
                runVars, respVars, apiVars>>

\* call_next(request), and call_next(request) again from the handler of
\* line 91 when the first raised: h1 and h2 are what the two calls do.
CallNext(h1, h2, storeErr) ==
    mwLast' = IF h1 = "response" THEN MwOutcome("handler", 1, storeErr)
              ELSE IF storeErr THEN MwOutcome("raised", 1, storeErr)
              ELSE MwOutcome(IF h2 = "response" THEN "handler" ELSE "raised", 2, storeErr)

\* Lines 27-28: an exempt path goes to the handler at once.
MwSkip(req, h) ==
    /\ mwPc = "idle"
    /\ mwReqs < MaxMwReqs
    /\ Exempt(req.path)
    /\ mwLast' = MwOutcome(IF h = "response" THEN "handler" ELSE "raised", 1, FALSE)
    /\ mwReqs' = mwReqs + 1
    /\ UNCHANGED <<mwCnt, mwPc, mwReq, mwCur, mwWin>>
    /\ MwFrame

\* current_count = chat_cache.redis_client.get(rate_limit_key)
MwGet(req) ==
    /\ mwPc = "idle"
    /\ mwReqs < MaxMwReqs
    /\ ~Exempt(req.path)
    /\ mwPc' = "got"
    /\ mwReq' = req
    /\ mwCur' = mwCnt[RateLimitKey(req)].val
    /\ mwReqs' = mwReqs + 1
    /\ UNCHANGED <<mwCnt, mwWin, mwLast>>
    /\ MwFrame

\* get_chat_cache() or the GET raises: line 94 lets the request through.
MwGetFails(req, h) ==
    /\ mwPc = "idle"
    /\ mwReqs < MaxMwReqs
    /\ ~Exempt(req.path)
    /\ CallNext(h, h, TRUE)
    /\ LetThrough(req, FALSE)
    /\ mwReqs' = mwReqs + 1
    /\ UNCHANGED <<mwCnt, mwPc, mwReq, mwCur>>
    /\ MwFrame

\* The request in progress is answered.
Done ==
    /\ mwPc' = "idle"
    /\ mwReq' = NoMwRequest
    /\ mwCur' = None

\* if current_count is None: setex(key, window, "1"), then call_next.
MwSetex(h1, h2) ==
    /\ mwPc = "got"
    /\ mwCur = None
    /\ mwCnt' = [mwCnt EXCEPT ![RateLimitKey(mwReq)] =
                    [val |-> 1, ttl |-> RateLimitFor(mwReq.path).window]]
    /\ CallNext(h1, h2, FALSE)
    /\ LetThrough(mwReq, TRUE)
    /\ Done
    /\ UNCHANGED mwReqs
    /\ MwFrame

\* if count >= rate_limit["requests"]: the 429 response.
MwReject ==
    /\ mwPc = "got"
    /\ mwCur # None
    /\ mwCur >= RateLimitFor(mwReq.path).requests
    /\ mwLast' = MwOutcome("429", 0, FALSE)
    /\ Done
    /\ UNCHANGED <<mwCnt, mwWin, mwReqs>>
    /\ MwFrame

\* else: incr(key), then call_next.
MwIncr(h1, h2) ==
    /\ mwPc = "got"
    /\ mwCur # None
    /\ mwCur < RateLimitFor(mwReq.path).requests
    /\ mwCnt' = [mwCnt EXCEPT ![RateLimitKey(mwReq)] = Incr(@)]
    /\ CallNext(h1, h2, FALSE)
    /\ LetThrough(mwReq, TRUE)
    /\ Done
    /\ UNCHANGED mwReqs
    /\ MwFrame

\* The SETEX or the INCR raises, the store having applied it or not:
\* line 94 lets the request through.
MwWriteFails(h, applied) ==
    /\ mwPc = "got"
    /\ mwCur = None \/ mwCur < RateLimitFor(mwReq.path).requests
    /\ mwCnt' = IF ~applied THEN mwCnt
                ELSE IF mwCur = None
                THEN [mwCnt EXCEPT ![RateLimitKey(mwReq)] =
                         [val |-> 1, ttl |-> RateLimitFor(mwReq.path).window]]
                ELSE [mwCnt EXCEPT ![RateLimitKey(mwReq)] = Incr(@)]
    /\ CallNext(h, h, TRUE)
    /\ LetThrough(mwReq, FALSE)
    /\ Done
    /\ UNCHANGED mwReqs
    /\ MwFrame

\* d seconds pass for the limiter's keys and the observed windows.
MwTick(d) ==
    /\ mwCnt' = [k \in MwKeys |->
                    IF Age(mwCnt[k].ttl, d) = KeyMissing THEN NoCounter
                    ELSE [mwCnt[k] EXCEPT !.ttl = Age(@, d)]]
    /\ mwWin' = [x \in Hosts \X PrefixNames |->
                    IF mwWin[x].left <= d THEN NoWindow
                    ELSE [mwWin[x] EXCEPT !.left = @ - d]]
    /\ <<mwCnt', mwWin'>> # <<mwCnt, mwWin>>
    /\ UNCHANGED <<mwPc, mwReq, mwCur, mwLast, mwReqs>>
    /\ MwFrame

\* ------------------------------------------ the chat endpoints of main.py
\* z[lo:hi] of a list, for 0 <= lo and 0 <= hi.
Slice(z, lo, hi) ==
    IF lo >= Len(z) \/ hi <= lo THEN <<>>
    ELSE SubSeq(z, lo + 1, IF hi > Len(z) THEN Len(z) ELSE hi)

\* The rows of chat_messages of the user, kept ascending by created_at;
\* .order("created_at", desc=True).limit(n) reads the n newest, newest
\* first.
NewestFirst(n) == Slice(Reverse(chatDb), 0, n)

\* check_rate_limit(u) run from its GET to its return without another call
\* in between: what it answers and the counter it leaves; down stands for
\* a cache that answers no command, which the function turns into its
\* fail-open answer.
RateAnswer(u, down) ==
    IF down THEN FailOpen
    ELSE IF rlVal[u] = None THEN Ret(TRUE, FirstRemaining)
    ELSE IF OverLimit(rlVal[u]) THEN Ret(FALSE, 0)
    ELSE Ret(TRUE, Remaining(rlVal[u]))
RateCounted(u, down) ==
    /\ rlVal' = IF down \/ (rlVal[u] # None /\ OverLimit(rlVal[u])) THEN rlVal
                ELSE [rlVal EXCEPT ![u] = IF @ = None THEN 1 ELSE @ + 1]
    /\ rlTtl' = IF ~down /\ rlVal[u] = None THEN [rlTtl EXCEPT ![u] = RATE_LIMIT_WINDOW]
                ELSE rlTtl

\* cache_messages_batch(u, messages): cache_message for each in turn, each
\* running through its four commands.
RECURSIVE BatchAdded(_, _)
BatchAdded(z, msgs) ==
    IF msgs = <<>> THEN z ELSE BatchAdded(Trimmed(ZAdd(z, Head(msgs))), Tail(msgs))
CacheMessagesBatch(u, msgs) ==
    /\ hist' = [hist EXCEPT ![u] = BatchAdded(@, msgs)]
    /\ histTtl' = [histTtl EXCEPT ![u] = IF msgs = <<>> THEN @ ELSE CACHE_TTL]
    /\ msgTtl' = [i \in MsgIds |-> IF \E k \in 1..Len(msgs) : msgs[k].id = i THEN CACHE_TTL
                                   ELSE msgTtl[i]]
    /\ written' = [written EXCEPT ![u] = @ \cup {msgs[k] : k \in 1..Len(msgs)}]

\* What the last call of an endpoint was and what it answered.
NoApiCall ==
    [endpoint |-> "none", limit |-> 0, offset |-> 0, source |-> "none", ret |-> <<>>,
     rows |-> <<>>, inStep |-> FALSE, allowed |-> FALSE, before |-> None, after |-> None]
Listed(limit, offset, source, ret) ==
    [NoApiCall EXCEPT !.endpoint = "getChatMessages", !.limit = limit, !.offset = offset,
                      !.source = source, !.ret = ret, !.rows = Reverse(chatDb),
                      !.inStep = (hist[CmUser] =
                                     SubSeq(chatDb, Len(chatDb) - Len(hist[CmUser]) + 1,
                                            Len(chatDb)))]

ApiFrame ==
    /\ UNCHANGED <<rlPc, rlCur, rlRet, rlErr, winLeft, winCalls, winClean, winSeen, rlIn,
                   rlFresh, grants>>
    /\ UNCHANGED <<sumTtl, cmPc, cmMsg, cmRet, cmOps, gcLimit, gcRet, gcOk, gcSeen, invRet>>
    /\ invRuns' = 0
    /\ UNCHANGED <<aggVars, collVars, schedVars, lifeVars, singVars, wardVars, runVars,
                   respVars, mwVars>>

\* return cached_messages[:limit]
CachedSlice(cached, limit, offset) == Slice(cached, 0, limit)

\* GET /api/chat/messages: get_chat_messages(limit, offset).  The cached
\* list is returned when it is not empty and has at least limit messages;
\* else the limit + offset newest rows are read, cached again, the session
\* is refreshed and messages[offset:offset + limit] is returned.
GetChatMessages(limit, offset, down) ==
    LET cached == IF down THEN <<>> ELSE CachedMessages(CmUser, limit + offset)
        messages == NewestFirst(limit + offset)
    IN  /\ IF cached # <<>> /\ Len(cached) >= limit
           THEN /\ apiLast' = Listed(limit, offset, "cache", CachedSlice(cached, limit, offset))
                /\ UNCHANGED <<hist, histTtl, msgTtl, written, sessTtl>>
           ELSE /\ apiLast' = Listed(limit, offset, "store",
                                     Slice(messages, offset, offset + limit))
                /\ IF down THEN UNCHANGED <<hist, histTtl, msgTtl, written, sessTtl>>
                   ELSE /\ CacheMessagesBatch(CmUser, messages)
                        /\ sessTtl' = [sessTtl EXCEPT ![CmUser] = SESSION_TTL]
        /\ UNCHANGED <<rlVal, rlTtl, chatDb>>
        /\ ApiFrame

\* POST /api/chat/messages: create_chat_message.  The rate limit is
\* checked (429 when not allowed), the session refreshed, the answer
\* generated, the row inserted and cached; an exception of the generation
\* or of the insert ends the request before the row exists.  Rows get
\* their created_at from the clock, so each is newer than those before.
CreateChatMessage(m, down, fails) ==
    LET answer == RateAnswer(CmUser, down)
    IN  /\ Len(chatDb) < MaxRows
        /\ m = PrefilledMsg(Len(chatDb) + 1)
        /\ RateCounted(CmUser, down)
        /\ apiLast' = [NoApiCall EXCEPT !.endpoint = "createChatMessage",
                                        !.allowed = answer.allowed]
        /\ IF ~answer.allowed
           THEN UNCHANGED <<hist, histTtl, msgTtl, written, sessTtl, chatDb>>
           ELSE /\ sessTtl' = IF down THEN sessTtl ELSE [sessTtl EXCEPT ![CmUser] = SESSION_TTL]
                /\ IF fails THEN UNCHANGED <<hist, histTtl, msgTtl, written, chatDb>>
                   ELSE /\ chatDb' = Append(chatDb, m)
                        /\ IF down THEN UNCHANGED <<hist, histTtl, msgTtl, written>>
                           ELSE CacheMessagesBatch(CmUser, <<m>>)
        /\ ApiFrame

\* GET /api/chat/rate-limit: get_rate_limit_status, which answers with
\* what check_rate_limit returns.
GetRateLimitStatus(down) ==
    LET answer == RateAnswer(CmUser, down)
    IN  /\ RateCounted(CmUser, down)
        /\ apiLast' = [NoApiCall EXCEPT !.endpoint = "getRateLimitStatus",
                                        !.allowed = answer.allowed,
                                        !.before = rlVal[CmUser],
                                        !.after = rlVal'[CmUser]]
        /\ UNCHANGED <<hist, histTtl, msgTtl, written, sessTtl, chatDb>>
        /\ ApiFrame

\* ------------------------------------------------------- initial states
RateInit ==
    /\ rlVal = [u \in Users |-> None]
    /\ rlTtl = [u \in Users |-> KeyMissing]
    /\ rlPc = [c \in Callers |-> "idle"]
    /\ rlCur = [c \in Callers |-> None]
    /\ rlRet = [c \in Callers |-> NoRet]
    /\ rlErr = [c \in Callers |-> FALSE]
    /\ winLeft = 0
    /\ winCalls = 0
    /\ winClean = TRUE
    /\ winSeen = FALSE
    /\ rlIn = [c \in Callers |-> FALSE]
    /\ rlFresh = [c \in Callers |-> FALSE]
    /\ grants = 0

ChatIdle ==
    /\ cmPc = "idle"
    /\ cmMsg = BadMsg
    /\ cmRet = "none"
    /\ cmOps = {}
    /\ gcLimit = 0
    /\ gcRet = <<>>
    /\ gcOk = FALSE
    /\ gcSeen = <<>>
    /\ invRet = "none"
    /\ invRuns = 0

\* A store without chat keys.
ChatEmpty ==
    /\ hist = [u \in Users |-> <<>>]
    /\ histTtl = [u \in Users |-> KeyMissing]
    /\ written = [u \in Users |-> {}]
    /\ msgTtl = [i \in MsgIds |-> KeyMissing]
    /\ sessTtl = [u \in Users |-> KeyMissing]
    /\ sumTtl = [u \in Users |-> KeyMissing]

\* The store after cache_message(CmUser, PrefilledMsg(i)) for i = 1..Prefilled.
ChatPrefilled ==
    /\ hist = [u \in Users |-> IF u = CmUser THEN [i \in 1..Prefilled |-> PrefilledMsg(i)]
                                ELSE <<>>]
    /\ histTtl = [u \in Users |-> IF u = CmUser THEN CACHE_TTL ELSE KeyMissing]
    /\ written = [u \in Users |-> IF u = CmUser THEN PrefilledSet ELSE {}]
    /\ msgTtl = [i \in MsgIds |-> IF i \in 1..Prefilled THEN CACHE_TTL ELSE KeyMissing]
    /\ sessTtl = [u \in Users |-> KeyMissing]
    /\ sumTtl = [u \in Users |-> KeyMissing]

AggIdle ==
    /\ aggIn = <<>>
    /\ aggOut = NoneResult
    /\ aggPc = "ready"

\* The collector after construction: an empty cache and an empty table.
CollIdle ==
    /\ clock = 0
    /\ hourKeys = {}
    /\ dayIdx = [k \in DayKeys |-> <<>>]
    /\ dayTtl = [k \in DayKeys |-> KeyMissing]
    /\ daily = {}
    /\ stores = 0
    /\ stLast = NoCall
    /\ ghLast = NoRead
    /\ fetchLast = NoFetch
    /\ hrLast = [status |-> "none", reached |-> {}]
    /\ persists = 0
    /\ lastCall = [k \in DayKeys |-> NoneResult]
    /\ lastDone = [k \in DayKeys |-> NoneResult]
    /\ dPc = 0
    /\ dDate = 0
    /\ dSeen = [w \in Wards |-> "pending"]
    /\ dBucket = [w \in Wards |-> <<>>]
    /\ dEnd = "none"

\* AQIScheduler.__init__
SchedIdle ==
    /\ isRunning = FALSE
    /\ schedState = "stopped"
    /\ hasCollector = FALSE
    /\ jobs = <<>>
    /\ starts = 0
    /\ startLast = "none"
    /\ hourlyCalls = 0
    /\ dailyCalls = 0
    /\ jobLast = NoJob
    /\ lastRaised = [j \in JobIds |-> FALSE]

\* No start() or shutdown() in progress, no job in flight.
LifeIdle ==
    /\ lifePc = "idle"
    /\ inFlight = {}
    /\ startCalls = 0
    /\ shutLast = "none"

\* The module globals of aqi_collector_singleton and chat_cache after import.
SingIdle ==
    /\ colInst = 0
    /\ colLock = 0
    /\ colPc = [t \in Threads |-> "idle"]
    /\ colGot = [t \in Threads |-> NoGot]
    /\ colSaw = [t \in Threads |-> FALSE]
    /\ colBuilt = 0
    /\ colCalls = [t \in Threads |-> 0]
    /\ colResets = 0
    /\ ccInst = 0
    /\ ccPc = [t \in Threads |-> "idle"]
    /\ ccGot = [t \in Threads |-> NoGot]
    /\ ccSaw = [t \in Threads |-> FALSE]
    /\ ccBuilt = 0
    /\ ccCalls = [t \in Threads |-> 0]

\* The class AQICollector after import: neither _cached_wards nor
\* _cache_lock is an attribute yet.
WardIdle ==
    /\ wcHas = FALSE
    /\ wcVal = "None"
    /\ wcLockObj = 0
    /\ wcLocks = 0
    /\ wcHeld = {}
    /\ wcPc = [t \in Threads |-> "idle"]
    /\ wcMyLock = [t \in Threads |-> 0]
    /\ wcGot = [t \in Threads |-> "none"]
    /\ wcLoads = 0
    /\ wcBuilds = [t \in Threads |-> 0]
    /\ wcClears = 0

RunIdle == dVia = "none" /\ dRetry = FALSE

\* An empty response cache, no request handled yet.
RespIdle ==
    /\ respCache = [k \in RespKeys |-> NoEntry]
    /\ rqLast = NoRequest

\* No limiter key, no request begun.
MwIdle ==
    /\ mwCnt = [k \in MwKeys |-> NoCounter]
    /\ mwPc = "idle"
    /\ mwReq = NoMwRequest
    /\ mwCur = None
    /\ mwWin = [x \in Hosts \X PrefixNames |-> NoWindow]
    /\ mwLast = NoMwOutcome
    /\ mwReqs = 0

\* No row, no endpoint called yet.
ApiIdle == chatDb = <<>> /\ apiLast = NoApiCall

MoreIdle == MwIdle /\ ApiIdle

ExtIdle == LifeIdle /\ SingIdle /\ WardIdle /\ RunIdle /\ RespIdle /\ MoreIdle

\* ------------------------------------------------------ specifications
Init == RateInit /\ ChatIdle /\ ChatEmpty /\ AggIdle /\ CollIdle /\ SchedIdle /\ ExtIdle

InitMsg == RateInit /\ ChatIdle /\ ChatPrefilled /\ AggIdle /\ CollIdle /\ SchedIdle /\ ExtIdle

InitAgg ==
    /\ RateInit /\ ChatIdle /\ ChatEmpty /\ CollIdle /\ SchedIdle /\ ExtIdle
    /\ aggIn \in ReadingLists
    /\ aggOut = NoneResult
    /\ aggPc = "ready"

\* One request handler at a time, store errors and the passing of time.
RateNext ==
    \/ RlGet(1)
    \/ RlGetFails(1)
    \/ RlSetex(1)
    \/ RlReject(1)
    \/ RlIncr(1)
    \/ RlWriteFails(1)
    \/ Tick(RateStep)

SpecRate == Init /\ [][RateNext]_vars

\* Several request handlers of one user inside one instant of one window,
\* no store error.
RaceNext ==
    \E c \in Callers :
        \/ RlGet(c)
        \/ RlSetex(c)
        \/ RlReject(c)
        \/ RlIncr(c)

SpecRace == Init /\ [][RaceNext]_vars

\* The message cache of one user: cache_message command by command, store
\* errors, reads, and the passing of time.
MsgNext ==
    \/ \E m \in MsgPool : CmSetex(m)
    \/ \E m \in MsgPool : CmSetexFails(m)
    \/ CmParseFails
    \/ CmZadd
    \/ CmZaddFails
    \/ CmTrim
    \/ CmTrimFails
    \/ CmExpire
    \/ CmExpireFails
    \/ Tick(DayStep)

SpecMsg == InitMsg /\ [][MsgNext]_vars

\* Reads of the message cache between cache_message calls that meet no
\* store error.
ReadNext ==
    \/ \E m \in MsgPool \ {BadMsg} : CmSetex(m)
    \/ CmZadd
    \/ CmTrim
    \/ CmExpire
    \/ \E limit \in Limits : GetCached(limit)
    \/ \E limit \in Limits : GetCachedFails(limit)

SpecRead == InitMsg /\ [][ReadNext]_vars

\* Sessions, summaries and invalidation for every user, while the followed
\* user caches messages.
InvNext ==
    \/ \E u \in Users : UpdateSession(u)
    \/ \E u \in Users : CacheSummary(u)
    \/ \E u \in Users : Invalidate(u)
    \/ \E u \in Users : InvalidateFails(u)
    \/ \E m \in {NewMsg(1), NewMsg(2)} : CmSetex(m)
    \/ CmZadd
    \/ CmTrim
    \/ CmExpire
    \/ Tick(DayStep)

SpecInv == InitMsg /\ [][InvNext]_vars

\* The cache of hourly readings: stores, reads, cache errors and the
\* passing of time.
StoreNext ==
    \/ \E r \in StoreInputs : StoreHourlyDataInRedis(StWard, r)
    \/ \E r \in StoreInputs, n \in 1..3 : StoreHourlyFails(StWard, r, n)
    \/ \E d \in Dates : GetHourly(StWard, d)
    \/ \E d \in Dates : GetHourlyFails(StWard, d)
    \/ CollTick(ClockStep)

SpecStore == Init /\ [][StoreNext]_vars

\* The wards readings are stored for and the keys rows are written for in
\* the specifications of the daily aggregation and of the table.
StoredWards == {1, 2}
PersistKeys == {<<1, 0>>, <<1, 1>>, <<2, 0>>}

\* The two batch runs: readings stored, daily runs for any date, hourly
\* runs, errors of the cache and of the table, and days passing between
\* daily runs.
DailyNext ==
    \/ \E w \in StoredWards, r \in StoreInputs \ {NoneResult} : StoreHourlyDataInRedis(w, r)
    \/ \E d \in Dates : DailyStart(d)
    \/ DailyWard
    \/ DailyWardUpsertFails
    \/ DailyWardReadFails
    \/ FetchAndStoreHourlyData
    \/ dPc = 0 /\ CollTick(DayStep)

SpecDaily == Init /\ [][DailyNext]_vars

\* The table of daily aggregates: calls of store_daily_average_in_supabase
\* in any order, errors of the table, and days passing.
PersistNext ==
    \/ \E k \in PersistKeys, agg \in AggPool : StoreDailyAverage(k[1], k[2], agg)
    \/ \E k \in PersistKeys, agg \in AggPool : StoreDailyAverageFails(k[1], k[2], agg)
    \/ CollTick(DayStep)

SpecPersist == Init /\ [][PersistNext]_vars

\* Fetches from the provider: calls of fetch_aqi_for_ward with any
\* coordinates and any response, hourly runs, and the passing of time.
FetchNext ==
    \/ \E coords \in Coords, resp \in Responses : FetchAqi(coords, resp)
    \/ FetchAndStoreHourlyData
    \/ CollTick(ClockStep)

SpecFetch == Init /\ [][FetchNext]_vars

\* The scheduler: starts, shutdowns, cron firings and manual triggers.
SchedNext ==
    \/ Start
    \/ StartFails
    \/ Shutdown
    \/ FireHourly
    \/ FireDaily
    \/ TriggerHourlyFetch
    \/ TriggerDailyCalculation

SpecSched == Init /\ [][SchedNext]_vars

\* The scheduler statement by statement: start() and shutdown() in steps,
\* cron firings running in the executor, manual triggers.
LifeNext ==
    \/ StartBegin
    \/ StartInvoke
    \/ StartAddDaily
    \/ StartTrigger
    \/ \E job \in JobIds : CronBegin(job)
    \/ \E job \in JobIds : CronEnd(job)
    \/ ShutdownBegin
    \/ ShutdownEnd
    \/ TriggerHourlyFetch
    \/ TriggerDailyCalculation

SpecLife == Init /\ [][LifeNext]_vars

\* Threads calling get_collector, and reset_collector.
CollectorNext ==
    \/ \E t \in Threads : ColCheck(t)
    \/ \E t \in Threads : ColAcquire(t)
    \/ \E t \in Threads : ColRecheck(t)
    \/ \E t \in Threads : ColBuild(t)
    \/ \E t \in Threads : ColReturn(t)
    \/ ResetCollector

SpecCollector == Init /\ [][CollectorNext]_vars

\* Threads calling get_chat_cache.
ChatCacheNext ==
    \/ \E t \in Threads : CcCheck(t)
    \/ \E t \in Threads : CcBuild(t)
    \/ \E t \in Threads : CcReturn(t)

SpecChatCache == Init /\ [][ChatCacheNext]_vars

\* Threads constructing collectors, and clear_wards_cache.
WardNext ==
    \/ \E t \in Threads : WardCheck(t)
    \/ \E t \in Threads : WardSetNone(t)
    \/ \E t \in Threads : WardNewLock(t)
    \/ \E t \in Threads : WardRead(t)
    \/ \E t \in Threads : WardWith(t)
    \/ \E t \in Threads : WardAcquire(t)
    \/ \E t \in Threads : WardRecheck(t)
    \/ \E t \in Threads : WardQuery(t)
    \/ \E t \in Threads : WardFile(t)
    \/ ClearWardsCache

SpecWards == Init /\ [][WardNext]_vars

\* Daily runs begun by the manual trigger and by the daily job, with
\* readings stored, errors of the cache and of the table, and time passing
\* between runs.
RecomputeNext ==
    \/ \E w \in StoredWards, r \in StoreInputs \ {NoneResult} : StoreHourlyDataInRedis(w, r)
    \/ TriggerDailyRun
    \/ FireDailyRun
    \/ DailyWard
    \/ DailyWardUpsertFails
    \/ DailyWardReadFails
    \/ dPc = 0 /\ CollTick(ClockStep)

SpecRecompute == Init /\ [][RecomputeNext]_vars

\* The response cache: requests of every kind, handlers and cache errors
\* of every kind, and time passing.
RespNext ==
    \/ \E req \in Requests, h1 \in HandlerOutcomes, err \in StoreErrors :
           Dispatch(req, h1, h1, err)
    \/ \E req \in Requests, h2 \in HandlerOutcomes \ {Raises} :
           Dispatch(req, Raises, h2, "none")
    \/ RespTick(RespStep)

SpecResp == Init /\ [][RespNext]_vars

\* The middleware limiter in sequential execution: one request at a time,
\* handlers and store errors of every kind, and time passing, also between
\* a request's read and its write.
LimiterNext ==
    \/ \E req \in MwRequests, h \in CallOutcomes : MwSkip(req, h)
    \/ \E req \in MwRequests : MwGet(req)
    \/ \E req \in MwRequests, h \in CallOutcomes : MwGetFails(req, h)
    \/ \E h1, h2 \in CallOutcomes : MwSetex(h1, h2)
    \/ MwReject
    \/ \E h1, h2 \in CallOutcomes : MwIncr(h1, h2)
    \/ \E h \in CallOutcomes, applied \in BOOLEAN : MwWriteFails(h, applied)
    \/ MwTick(MwStep)

SpecLimiter == Init /\ [][LimiterNext]_vars

\* The chat history of one user read and extended one request at a time,
\* the cache answering or not, cleared and expiring.
HistoryNext ==
    \/ \E limit \in 0..MaxLimit, offset \in 0..MaxOffset, down \in BOOLEAN :
           GetChatMessages(limit, offset, down)
    \/ \E down, fails \in BOOLEAN : CreateChatMessage(PrefilledMsg(Len(chatDb) + 1), down, fails)
    \/ Invalidate(CmUser)
    \/ Tick(DayStep)

SpecHistory == Init /\ [][HistoryNext]_vars

\* The users' quota and cache keys: messages sent, the rate-limit status
\* queried, caches cleared, sessions and summaries written, time passing.
QuotaNext ==
    \/ \E down, fails \in BOOLEAN : CreateChatMessage(PrefilledMsg(Len(chatDb) + 1), down, fails)
    \/ \E down \in BOOLEAN : GetRateLimitStatus(down)
    \/ \E u \in Users : Invalidate(u)
    \/ \E u \in Users : InvalidateFails(u)
    \/ \E u \in Users : UpdateSession(u)
    \/ \E u \in Users : CacheSummary(u)
    \/ Tick(DayStep)

SpecQuota == Init /\ [][QuotaNext]_vars

\* calculate_daily_average applied to every list of readings within bounds.
AggNext == Aggregate

SpecAgg == InitAgg /\ [][AggNext]_vars

\* ----------------------------------------------------------------- claims
\* What the k-th call of a window answers.
Expected(k) ==
    IF k <= RATE_LIMIT_MAX THEN Ret(TRUE, RATE_LIMIT_MAX - k) ELSE Ret(FALSE, 0)

\* C1: for a user with no counter key and without store errors, the k-th
\* sequential call inside one 60 s window returns allowed=true with
\* remaining 10-k for k = 1..10 and (false, 0) from the 11th on; the first
\* call after the window has elapsed is again a first call, (true, 9).
C1_WindowSequence ==
    (rlPc[1] = "idle" /\ winLeft > 0 /\ winClean /\ winCalls >= 1)
        => rlRet[1] = Expected(winCalls)

\* C1 witness: in a second window, after a first one elapsed, the 11th call
\* has been rejected.
C1_Witness ==
    /\ rlPc[1] = "idle" /\ winLeft > 0 /\ winClean /\ winSeen
    /\ winCalls = RATE_LIMIT_MAX + 1
    /\ rlRet[1] = Ret(FALSE, 0)

\* C2: under any interleaving of concurrent calls of one user inside one
\* window, at most one call more than the maximum of 10 is answered
\* allowed=true.
C2_AtMostOneExtra == grants <= RATE_LIMIT_MAX + 1

\* C3: a rejected call leaves the counter value and its remaining
\* time-to-live unchanged.
C3_RejectionFrame ==
    [][\A c \in Callers :
         (rlPc[c] = "got" /\ rlPc'[c] = "idle" /\ rlRet'[c] = Ret(FALSE, 0))
             => (rlVal' = rlVal /\ rlTtl' = rlTtl)]_vars

\* C3 witness: a call has been rejected while the counter key exists.
C3_Witness ==
    /\ rlPc[1] = "idle" /\ rlRet[1] = Ret(FALSE, 0)
    /\ rlVal[RlUser] >= RATE_LIMIT_MAX /\ rlTtl[RlUser] > 0

\* C4: a call during which a store operation failed does not raise and
\* returns (true, 10).
C4_FailOpen ==
    \A c \in Callers :
        (rlPc[c] = "idle" /\ rlErr[c])
            => rlRet[c] = Ret(TRUE, RATE_LIMIT_MAX)

\* C4 witness: the INCR of a call raised while the counter stood at the
\* maximum minus one, and the call was answered.
C4_Witness ==
    /\ rlPc[1] = "idle" /\ rlErr[1]
    /\ rlCur[1] = RATE_LIMIT_MAX - 1
    /\ rlRet[1].status = "returned"

Range(z) == {z[i] : i \in 1..Len(z)}

Min(a, b) == IF a < b THEN a ELSE b

\* C5: after a cache_message call that completed without store error, with
\* no call in progress, the index holds at most 50 entries, all distinct,
\* and they are the entries with the greatest creation timestamps among the
\* messages added to the index since it was created: no dropped message is
\* newer than a retained one.
C5_IndexKeepsMostRecent ==
    (cmPc = "idle" /\ cmRet = "True") =>
        LET kept == Range(hist[CmUser])
            all == written[CmUser]
        IN  /\ kept \subseteq all
            /\ Len(hist[CmUser]) = Cardinality(kept)
            /\ Cardinality(kept) = Min(RECENT_MESSAGES_COUNT, Cardinality(all))
            /\ \A a \in kept : \A b \in all \ kept : a.created_at >= b.created_at

\* C5 witness: more than 50 distinct messages were added, the index holds
\* 50 of them and the oldest one has been dropped.
C5_Witness ==
    /\ cmPc = "idle" /\ cmRet = "True"
    /\ Cardinality(written[CmUser]) > RECENT_MESSAGES_COUNT
    /\ Len(hist[CmUser]) = RECENT_MESSAGES_COUNT
    /\ PrefilledMsg(1) \in written[CmUser] \ Range(hist[CmUser])

\* The first n elements of a sequence.
Take(z, n) == SubSeq(z, 1, Min(n, Len(z)))

\* C6: for every limit >= 0, get_cached_messages returns at most limit
\* messages, namely the entries of the index with the greatest creation
\* timestamps, newest first.
C6_AtMostLimitNewestFirst ==
    gcOk => /\ Len(gcRet) <= gcLimit
            /\ gcRet = Take(Reverse(gcSeen), gcLimit)

\* C7: cache_message returns False on any failure and returns True only
\* when the four store commands SETEX, ZADD, ZREMRANGEBYRANK and EXPIRE all
\* succeeded; nothing else comes out of it.
C7_TrueOnlyAfterAllFour ==
    /\ cmRet \in {"none", "True", "False"}
    /\ (cmPc = "idle" /\ cmRet # "none") =>
           (cmRet = "True" <=> cmOps = {"setex", "zadd", "trim", "expire"})

\* C7 witness: a call whose created_at did not parse returned False after
\* its SETEX alone.
C7_Witness ==
    /\ cmPc = "idle" /\ cmRet = "False"
    /\ Score(cmMsg) = BadStamp
    /\ cmOps = {"setex"}

\* The keys invalidate_user_cache(u) is to remove are absent.
Cleared(u) ==
    /\ hist[u] = <<>>
    /\ histTtl[u] = KeyMissing
    /\ sessTtl[u] = KeyMissing
    /\ sumTtl[u] = KeyMissing

\* C8: a successful invalidate_user_cache(u) leaves u's message index,
\* session record and summary key absent, and a second call right after
\* it succeeds and leaves the store as the first call left it.
C8_InvalidateIdempotent ==
    [][invRuns' > invRuns
          => /\ Cleared(CmUser)'
             /\ invRet' = "True"
             /\ invRuns >= 1 =>
                  UNCHANGED <<hist, histTtl, msgTtl, sessTtl, sumTtl, rlVal, rlTtl>>]_vars

\* C8 witness: two invalidations in a row have returned True.
C8_Witness ==
    /\ invRuns = 2 /\ invRet = "True"
    /\ Cleared(CmUser)

\* The positions of the readings that carry an AQI.
WithAqi == {i \in 1..Len(aggIn) : aggIn[i].aqi # Null}

RECURSIVE SumAt(_)
SumAt(I) ==
    IF I = {} THEN 0
    ELSE LET i == CHOOSE j \in I : TRUE IN aggIn[i].aqi + SumAt(I \ {i})

\* C9: calculate_daily_average returns None exactly when no reading of its
\* input carries a non-null AQI (the empty list included), and a dict in
\* every other case.
C9_NoneIffNoAqi ==
    aggPc = "done" =>
        /\ aggOut.kind \in {"None", "dict"}
        /\ aggOut.kind = "None" <=> WithAqi = {}

\* C9 witness: a non-empty list without any AQI was answered None.
C9_Witness ==
    /\ aggPc = "done" /\ aggOut.kind = "None"
    /\ Len(aggIn) >= 2 /\ WithAqi = {}

\* C10: when some reading carries an AQI, avg_aqi is the sum of the non-null
\* AQI values divided by their number, and min_aqi and max_aqi are the
\* least and the greatest of these values; readings without AQI have no
\* part in them.
C10_MeanMinMax ==
    (aggPc = "done" /\ aggOut.kind = "dict") =>
        /\ WithAqi # {}
        /\ aggOut.avg_aqi = [num |-> SumAt(WithAqi), den |-> Cardinality(WithAqi)]
        /\ \E i \in WithAqi : aggOut.min_aqi = aggIn[i].aqi
        /\ \E i \in WithAqi : aggOut.max_aqi = aggIn[i].aqi
        /\ \A i \in WithAqi : aggOut.min_aqi <= aggIn[i].aqi /\ aggIn[i].aqi <= aggOut.max_aqi

\* C10 witness: an aggregate over a list that mixes readings without AQI
\* and readings with different AQI values.
C10_Witness ==
    /\ aggPc = "done" /\ aggOut.kind = "dict"
    /\ Cardinality(WithAqi) < Len(aggIn)
    /\ aggOut.min_aqi < aggOut.max_aqi

\* The positions of the readings that carry the field f.
With(f) == {i \in 1..Len(aggIn) : aggIn[i][f] # Null}

RECURSIVE SumOf(_, _)
SumOf(I, f) ==
    IF I = {} THEN 0
    ELSE LET i == CHOOSE j \in I : TRUE IN aggIn[i][f] + SumOf(I \ {i}, f)

Pollutants == {"pm25", "pm10", "no2", "o3"}

\* The aggregate's mean field of pollutant f.
AvgOf(f) ==
    CASE f = "pm25" -> aggOut.avg_pm25
      [] f = "pm10" -> aggOut.avg_pm10
      [] f = "no2" -> aggOut.avg_no2
      [] f = "o3" -> aggOut.avg_o3

\* C11: in an aggregate, the mean of each pollutant (PM2.5, PM10, NO2, O3)
\* is the sum of that pollutant over exactly the readings that carry it,
\* divided by their number, whatever else those readings lack; it is null,
\* not zero, when no reading carries the pollutant.
C11_PollutantMeans ==
    (aggPc = "done" /\ aggOut.kind = "dict") =>
        \A f \in Pollutants :
            IF With(f) = {} THEN AvgOf(f) = NullMean
            ELSE AvgOf(f) = [num |-> SumOf(With(f), f), den |-> Cardinality(With(f))]

\* C11 witness: an aggregate whose PM2.5 mean counts a reading that lacks
\* PM10, over fewer readings than the AQI mean, and whose O3 mean is null.
C11_Witness ==
    /\ aggPc = "done" /\ aggOut.kind = "dict"
    /\ \E i \in With("pm25") : aggIn[i].pm10 = Null
    /\ With("pm10") # {} /\ With("pm10") # With("pm25")
    /\ With("pm25") # WithAqi
    /\ aggOut.avg_pm25.den = Cardinality(With("pm25"))
    /\ aggOut.avg_o3 = NullMean

\* C12: the aggregate's hourly_readings_count is the number of readings
\* whose AQI entered avg_aqi, min_aqi and max_aqi; a reading with null AQI
\* is not counted.
C12_CountsContributing ==
    (aggPc = "done" /\ aggOut.kind = "dict") =>
        aggOut.hourly_readings_count = Cardinality(WithAqi)

\* The readings of a list.
Readings(z) == {z[i] : i \in 1..Len(z)}

\* A store_hourly_data_in_redis call of a non-null reading ends in this
\* step, the cache having accepted its commands.
StoreEnds ==
    /\ stores' = stores + 1
    /\ stLast'.reading # NoneResult
    /\ stLast'.status # "RedisError"

\* C13: a store_hourly_data_in_redis call of a non-null reading r returns,
\* and get_hourly_data_from_redis for the ward and the date r was stored
\* under then returns a list that contains r, field by field, and every
\* reading that list contained before the call.
C13_RoundTrip ==
    [][StoreEnds =>
        /\ stLast'.status = "returned"
        /\ stLast'.reading \in Readings(Decoded(dayIdx'[<<stLast'.ward, stLast'.date>>]))
        /\ Readings(Decoded(dayIdx[<<stLast'.ward, stLast'.date>>]))
              \subseteq Readings(Decoded(dayIdx'[<<stLast'.ward, stLast'.date>>]))]_vars

\* The rows the table holds for a key.
RowsOf(k) == {x \in daily : x.ward_no = k[1] /\ x.date = k[2]}

\* C14 as stated: after any sequence of store_daily_average_in_supabase
\* calls the table holds at most one row per (ward, date), and that row
\* carries the values of the most recent call for the key.
C14_OneRowOfLastCall ==
    \A k \in DayKeys :
        /\ Cardinality(RowsOf(k)) <= 1
        /\ RowsOf(k) # {} => RowsOf(k) = {lastCall[k]}

\* C14 amended: after any sequence of store_daily_average_in_supabase
\* calls the table holds at most one row per (ward, date): none when the
\* table applied no upsert for the key, else the row of the most recent
\* call whose upsert the table applied. A call whose upsert fails leaves
\* the row as it was.
C14_OneRowOfLastApplied ==
    \A k \in DayKeys :
        /\ Cardinality(RowsOf(k)) <= 1
        /\ lastDone[k] = NoneResult => RowsOf(k) = {}
        /\ lastDone[k] # NoneResult => RowsOf(k) = {lastDone[k].row}

\* C14 witness: a key whose row was replaced by a later call with other
\* values, and for which a still later call failed without effect.
C14_Witness ==
    \E k \in DayKeys :
        /\ lastDone[k] # NoneResult
        /\ lastDone[k].replaced
        /\ RowsOf(k) = {lastDone[k].row}
        /\ lastCall[k] # lastDone[k].row

\* C15: a batch run processes every ward of the list: when a daily run has
\* ended, whether or not the cache read or the upsert of some ward failed,
\* no ward is left unprocessed, and an hourly run reaches every ward.
C15_BatchReachesEveryWard ==
    /\ dEnd \in {"returned", "raised"} => \A w \in Wards : dSeen[w] # "pending"
    /\ hrLast.status # "none" => hrLast.reached = Wards

\* The last fetch_aqi_for_ward call had nothing to return: coordinates out
\* of range, no answer, an answer whose status is not ok, or no AQI in it.
NoData ==
    \/ fetchLast.coords = "outOfRange"
    \/ fetchLast.resp.kind \in {"httpError", "timeout"}
    \/ fetchLast.resp.kind = "answer" /\ fetchLast.resp.status # "ok"
    \/ fetchLast.resp.kind = "answer" /\ AqiOf(fetchLast.resp) = Null

\* C16: fetch_aqi_for_ward never raises; with coordinates out of range, a
\* transport error or timeout, an answer whose status is not ok, or an
\* answer without AQI it returns None, and with coordinates out of range
\* it does not call the provider.
C16_FetchNeverRaises ==
    fetchLast.out.status # "none" =>
        /\ fetchLast.out.status = "returned"
        /\ NoData => fetchLast.out.ret = NoneResult
        /\ fetchLast.coords = "outOfRange" => ~fetchLast.out.called

HasAqi(readings) == \E i \in 1..Len(readings) : readings[i].aqi # Null

\* The bucket of ward w as a daily run met it: as read by the run, or, for
\* a ward the run never reached, as it stands when the run ends.
BucketMet(w) ==
    IF dSeen'[w] = "pending" THEN Decoded(dayIdx'[<<w, dDate'>>]) ELSE dBucket'[w]

\* C18: when a daily run for date D ends, it has issued the upsert of an
\* aggregate for exactly the wards whose bucket for D holds a reading with
\* non-null AQI (a ward whose own bucket could not be read aside); for a
\* ward with an empty bucket it issued none.
C18_UpsertIffAqi ==
    [][(dEnd = "running" /\ dEnd' \in {"returned", "raised"}) =>
        \A w \in Wards :
            dSeen'[w] # "readFailed" =>
                /\ dSeen'[w] \in {"upserted", "upsertFailed"} <=> HasAqi(BucketMet(w))
                /\ Len(BucketMet(w)) = 0 => dSeen'[w] \in {"skipped", "pending"}]_vars

\* C19: start() called on a scheduler that is running changes nothing: the
\* jobs listed are still exactly fetch_hourly_aqi and
\* calculate_daily_averages, once each, no hourly collection is run, and
\* the scheduler is still running.
C19_StartWhileRunning ==
    [][(starts' = starts + 1 /\ isRunning) =>
        /\ jobs' = jobs
        /\ jobs' = <<HourlyJob, DailyJob>>
        /\ hourlyCalls' = hourlyCalls
        /\ isRunning' /\ schedState' = "running"]_vars

\* C19 witness: a second start() found the scheduler running and left
\* the single initial collection and the two jobs as they were.
C19_Witness ==
    /\ starts = 2 /\ startLast = "alreadyRunning"
    /\ isRunning /\ schedState = "running"
    /\ jobs = <<HourlyJob, DailyJob>>
    /\ hourlyCalls = 1

\* C20: when the collector's routine raises inside a job invocation (from
\* the cron trigger, from start() or from a manual trigger), the wrapper
\* does not raise, a running scheduler is still running with its two
\* jobs, a start() in progress completes with both jobs registered, and so
\* the job's trigger keeps firing.
C20_WrapperContainsFailure ==
    [][((hourlyCalls' # hourlyCalls \/ dailyCalls' # dailyCalls) /\ jobLast'.raised) =>
        /\ ~jobLast'.propagated
        /\ isRunning => /\ isRunning' /\ schedState' = "running"
                        /\ jobs' = jobs /\ jobs' = <<HourlyJob, DailyJob>>
        /\ jobLast'.via = "start" => /\ isRunning' /\ schedState' = "running"
                                      /\ jobs' = <<HourlyJob, DailyJob>>]_vars

\* C20 witness: the cron trigger of the daily job fired and invoked the
\* collector after the job's previous invocation had raised, the scheduler
\* still running with both jobs.
C20_Witness ==
    /\ jobLast.job = DailyJob /\ jobLast.via = "cron" /\ jobLast.afterRaise
    /\ ~jobLast.propagated
    /\ dailyCalls >= 2
    /\ isRunning /\ jobs = <<HourlyJob, DailyJob>>

\* C27: in every reachable state, a cache error between the commands of
\* store_hourly_data_in_redis included, every hourly key and every per-day
\* index of the AQI cache has an expiry, and the value under an hourly key
\* is a member of the index of its ward and date.
C27_KeysExpireAndIndexed ==
    /\ \A k \in hourKeys :
        /\ k.ttl > 0
        /\ \E i \in 1..Len(dayIdx[<<k.ward, k.date>>]) :
               dayIdx[<<k.ward, k.date>>][i].member = k.val
    /\ \A dk \in DayKeys : Len(dayIdx[dk]) > 0 => dayTtl[dk] > 0

\* C21: shutdown() of a running scheduler ends with is_running false and
\* the background scheduler stopped, and a cron firing submits a job only
\* while the scheduler is running, so none does between a shutdown() and
\* the next start(); shutdown() of a stopped scheduler changes nothing and
\* does not raise; a job leaves the executor only by running to its end,
\* shutdown() or not.
C21_ShutdownStops ==
    [][/\ (lifePc = "shutWait" /\ lifePc' = "idle") =>
            /\ ~isRunning' /\ schedState' = "stopped" /\ shutLast' = "stopped"
       /\ (inFlight' \ inFlight # {}) => (schedState = "running" /\ isRunning)
       /\ ~isRunning' => schedState' = "stopped"
       /\ shutLast' # "raised"
       /\ (shutLast' # shutLast /\ shutLast' = "nothing") =>
            /\ schedVars' = schedVars /\ collVars' = collVars
            /\ lifePc' = lifePc /\ inFlight' = inFlight
            /\ ~isRunning /\ schedState = "stopped"
       /\ (inFlight \ inFlight' # {}) =>
            /\ hourlyCalls' + dailyCalls' = hourlyCalls + dailyCalls + 1
            /\ jobLast'.via = "cron" /\ inFlight \ inFlight' = {jobLast'.job}]_vars

\* C21 witness: a shutdown() has returned, is_running false, after the
\* job that was in flight when it was called ran to its end while the
\* call waited.
C21_Witness ==
    /\ shutLast = "stopped" /\ lifePc = "idle"
    /\ ~isRunning /\ schedState = "stopped"
    /\ jobLast.via = "cron" /\ jobLast.during = "shutWait"
    /\ inFlight = {}

\* C22: at the initial invocation of the hourly job made by start(), both
\* recurring jobs are registered.
C22_BothJobsThenInvocation ==
    [][(startCalls' = startCalls + 1) => jobs = <<HourlyJob, DailyJob>>]_vars

\* C22 (amended): start() from Stopped adds the hourly job, invokes the
\* hourly job once in the calling thread while the background scheduler is
\* still stopped, adds the daily job and only then starts the scheduler;
\* no cron firing submits a job while a start() is in progress.
C22_StartOrder ==
    [][/\ (startCalls' = startCalls + 1) =>
            /\ startCalls = 0 /\ jobs = <<HourlyJob>> /\ jobs' = jobs
            /\ schedState = "stopped" /\ schedState' = "stopped"
            /\ jobLast'.via = "start" /\ hourlyCalls' = hourlyCalls + 1
       /\ (lifePc = "dailyAdded" /\ lifePc' = "idle") =>
            /\ startCalls = 1 /\ jobs = <<HourlyJob, DailyJob>>
            /\ schedState = "stopped" /\ schedState' = "running" /\ isRunning'
       /\ (inFlight' \ inFlight # {}) => (lifePc = "idle" /\ schedState = "running")
       /\ lifePc' \in {"added", "invoked", "dailyAdded"} => inFlight' = {}]_vars

\* C22 witness: a start() has completed after one initial invocation and a
\* cron firing has then submitted the hourly job.
C22_Witness ==
    /\ lifePc = "idle" /\ startLast = "started" /\ startCalls = 1
    /\ jobs = <<HourlyJob, DailyJob>> /\ schedState = "running"
    /\ HourlyJob \in inFlight

\* C23: as long as reset_collector has not been called, get_collector has
\* built at most one AQICollector, whatever the interleaving of the
\* calling threads, and every call that returned returned that instance.
C23_OneCollector ==
    colResets = 0 =>
        /\ colBuilt <= 1
        /\ \A t \in Threads : colGot[t].ret = "instance" =>
               (colGot[t].id = 1 /\ colInst = 1)

\* C23 witness: two threads both found no instance at their first test,
\* and both calls have returned the one instance built.
C23_Witness ==
    /\ colResets = 0 /\ colBuilt = 1
    /\ \A t \in {1, 2} : colSaw[t] /\ colCalls[t] = 1 /\ colGot[t] = Got(1)

\* C24: get_chat_cache has built at most one ChatCache, whatever the
\* interleaving of the calling threads, and every call that returned
\* returned that instance.
C24_OneChatCache ==
    /\ ccBuilt <= 1
    /\ \A t \in Threads : ccGot[t].ret = "instance" => ccGot[t].id = 1

\* C25: since the last clear_wards_cache the ward list has been loaded at
\* most once, however many collectors were constructed, one after another
\* or concurrently, and no construction has ended in an error.
C25_WardsLoadedOnce ==
    /\ wcLoads <= 1
    /\ \A t \in Threads : wcGot[t] # "AttributeError"

\* C28: when the last daily run failed for its date D, or left an upsert
\* of D undone, the next run begun by the manual trigger or by the daily
\* job's firing targets D again.
C28_NextRunRecomputes ==
    [][(dPc = 0 /\ dPc' = 1 /\ LastRunFailed) => dDate' = dDate]_vars

\* C28 (amended): a run begun by the manual trigger or by the daily job
\* targets the day before the day it begins on; so after a failed run for
\* D, a run begun while D is still yesterday targets D again, and each
\* upsert it makes leaves exactly one row for (ward, D), holding the
\* aggregate just computed, and leaves the rows of every other key as they
\* were; a run begun a day later targets D + 1.
C28_RerunOfYesterday ==
    [][/\ (dPc = 0 /\ dPc' = 1) =>
            /\ dDate' + 1 = DateOf(clock)
            /\ (LastRunFailed /\ DateOf(clock) = dDate + 1) => (dDate' = dDate /\ dRetry')
            /\ (LastRunFailed /\ DateOf(clock) > dDate + 1) => dDate' = DateOf(clock) - 1
            /\ daily' = daily
       /\ \A w \in Wards : (dPc = w /\ dSeen'[w] = "upserted") =>
            /\ RowsOf(<<w, dDate>>)' =
                 {Row(w, dDate, CalculateDailyAverage(Decoded(dayIdx[<<w, dDate>>])))}
            /\ \A x \in daily : ~(x.ward_no = w /\ x.date = dDate) => x \in daily'
            /\ \A x \in daily' : ~(x.ward_no = w /\ x.date = dDate) => x \in daily]_vars

\* C28 witness: a manual trigger began a run for the date of the failed
\* run before it, and that run has replaced the row the failed run had
\* left for ward 1.
C28_Witness ==
    /\ dVia = "manual" /\ dRetry /\ dEnd = "returned"
    /\ dSeen[1] = "upserted"
    /\ lastDone[<<1, dDate>>] # NoneResult /\ lastDone[<<1, dDate>>].replaced
    /\ RowsOf(<<1, dDate>>) = {lastDone[<<1, dDate>>].row}

\* C29: a GET request on a cacheable prefix that finds an unexpired entry
\* under its key is answered with the stored content and status, tagged
\* X-Cache: HIT, without a call of the handler; one that finds none has the
\* handler called and its response tagged X-Cache: MISS.
C29_HitServedFromCache ==
    (rqLast.read /\ rqLast.served # "raised") =>
        IF rqLast.found
        THEN rqLast.calls = 0 /\ rqLast.served = "cache" /\ rqLast.tag = "HIT"
        ELSE rqLast.calls >= 1 /\ rqLast.served = "handler" /\ rqLast.tag = "MISS"

LimitOf(prefix) ==
    IF prefix = "default" THEN DefaultLimit.requests
    ELSE RATE_LIMITS[CHOOSE i \in 1..Len(RATE_LIMITS) : RATE_LIMITS[i].prefix = prefix].requests

\* C31: for each client address and each configured prefix, the requests
\* let through to the handler within one window, no store command having
\* failed, never exceed the prefix's limit, whatever paths under the prefix
\* are requested.
C31_PrefixLimit ==
    \A x \in Hosts \X PrefixNames :
        mwWin[x].clean => mwWin[x].through <= LimitOf(x[2])

\* C32: every rate-limit counter key that exists, of the chat limiter and
\* of the middleware limiter, carries an expiry of at most its window, so
\* that a rejected user is allowed again within one window length of the
\* window's first request.
C32_CounterKeysExpire ==
    /\ \A u \in Users : rlVal[u] # None => rlTtl[u] \in 1..RATE_LIMIT_WINDOW
    /\ \A k \in MwKeys : mwCnt[k].val # None => mwCnt[k].ttl \in 1..RateLimitFor(k.path).window

\* C34: for every request the limiter or the response cache does not
\* answer itself (429, cache hit), call_next is invoked exactly once, also
\* when a store command fails and when the handler raises.
C34_HandlerInvokedOnce ==
    /\ mwLast.out \in {"handler", "raised"} => mwLast.calls = 1
    /\ rqLast.served \in {"handler", "raised"} => rqLast.calls = 1

\* C35: every get_collector call that returns, returns a constructed
\* AQICollector and never None, whatever the interleaving with
\* reset_collector calls of other threads.
C35_NeverReturnsNone ==
    \A t \in Threads : colGot[t].ret = "instance" => colGot[t].id # 0

\* C36: when cache_message has returned False, no store command of that
\* call has taken effect: the message key is not written and the index has
\* neither the member nor a changed size or expiry.
C36_FalseLeavesCacheUnchanged ==
    (cmPc = "idle" /\ cmRet = "False") => cmOps = {}

\* C37: get_chat_messages returns the slice [offset, offset + limit) of the
\* newest-first history, whether it reads the message cache or the durable
\* store, the cache holding the newest of the stored messages.
C37_SameSliceFromCacheAndStore ==
    (apiLast.endpoint = "getChatMessages" /\ apiLast.inStep) =>
        apiLast.ret = Slice(apiLast.rows, apiLast.offset, apiLast.offset + apiLast.limit)

\* The keys of user v: message index, session, summary and rate-limit
\* counter, each with its expiry.
KeysOf(v) == <<hist[v], histTtl[v], sessTtl[v], sumTtl[v], rlVal[v], rlTtl[v]>>

C39_StatusKeepsCounter ==
    apiLast.endpoint = "getRateLimitStatus" => apiLast.after = apiLast.before

=============================================================================
